---- MODULE Spec2Model ----
(***************************************************************************)
(* A model of the MyRecovery training-recovery tracker: the JSON-file      *)
(* persistence layer (storage.py), the account store (auth.py), the        *)
(* recovery engine (recovery_logic.py) over the catalog (model.py), and    *)
(* the session gate of the dashboard (app_streamlit.py).                   *)
(*                                                                         *)
(* Numbers.  The program computes in binary floating point; the model      *)
(* computes in fixed point on integers:                                    *)
(*   - instants are whole ticks, TicksPerDay ticks to the day;             *)
(*   - SFR, half-lives and effort multipliers are carried in tenths,       *)
(*     sleep and steps factors in hundredths, sleep hours in tenths;       *)
(*   - exp() is evaluated to four decimals (FP), raw fatigue and           *)
(*     readiness to six decimals (RAW_ONE is 1.0, 100 * RAW_ONE is 100 %). *)
(***************************************************************************)
EXTENDS Integers, Sequences, FiniteSets, TLC

(***************************************************************************)
(* model.py: the catalog.                                                  *)
(***************************************************************************)
\* The 19 tracked muscles, in the order of the source list.
MUSCLES ==
    << "chest",
       "traps",
       "lats",
       "front_delts",
       "side_delts",
       "rear_delts",
       "biceps",
       "triceps",
       "forearm_flexors",
       "forearm_extensors",
       "brachioradialis",
       "quads",
       "hamstrings",
       "glutes",
       "calves",
       "lower_back",
       "abs",
       "neck_flexors",
       "neck_extensors" >>

\* The exercise catalog; sfr is in tenths (3.5 is 35).  The display name is
\* not modelled: no modelled computation reads it.
EXERCISES ==
    ("hang_clean" :>
        [primary |-> <<"glutes", "lower_back">>,
         secondary |-> <<"hamstrings", "calves", "front_delts">>,
         sfr |-> 20])
 @@ ("wrist_curl" :>
        [primary |-> <<"forearm_flexors">>,
         secondary |-> <<>>,
         sfr |-> 40])
 @@ ("reverse_barbell_curl" :>
        [primary |-> <<"brachioradialis">>,
         secondary |-> <<"biceps", "forearm_extensors">>,
         sfr |-> 38])
 @@ ("dumbbell_pullover" :>
        [primary |-> <<"lats", "chest", "triceps">>,
         secondary |-> <<>>,
         sfr |-> 32])
 @@ ("pull_ups" :>
        [primary |-> <<"lats", "traps">>,
         secondary |-> <<"biceps", "rear_delts", "brachioradialis", "forearm_flexors", "abs">>,
         sfr |-> 34])
 @@ ("face_pull" :>
        [primary |-> <<"rear_delts">>,
         secondary |-> <<"traps">>,
         sfr |-> 40])
 @@ ("incline_dumbbell_bench_press" :>
        [primary |-> <<"chest", "front_delts">>,
         secondary |-> <<"triceps">>,
         sfr |-> 37])
 @@ ("kettlebell_swing" :>
        [primary |-> <<"hamstrings", "glutes">>,
         secondary |-> <<"lower_back", "quads">>,
         sfr |-> 25])
 @@ ("neck_extension" :>
        [primary |-> <<"neck_extensors">>,
         secondary |-> <<>>,
         sfr |-> 40])
 @@ ("neck_curl" :>
        [primary |-> <<"neck_flexors">>,
         secondary |-> <<>>,
         sfr |-> 40])
 @@ ("bent_over_row" :>
        [primary |-> <<"traps">>,
         secondary |-> <<"lats", "rear_delts", "biceps", "brachioradialis">>,
         sfr |-> 32])
 @@ ("shoulder_press" :>
        [primary |-> <<"front_delts", "side_delts">>,
         secondary |-> <<"triceps", "traps">>,
         sfr |-> 33])
 @@ ("back_extension" :>
        [primary |-> <<"lower_back">>,
         secondary |-> <<"glutes", "hamstrings">>,
         sfr |-> 32])
 @@ ("dumbbell_lateral_raise" :>
        [primary |-> <<"side_delts">>,
         secondary |-> <<>>,
         sfr |-> 45])
 @@ ("treadmill_run" :>
        [primary |-> <<"quads", "hamstrings", "calves">>,
         secondary |-> <<"glutes">>,
         sfr |-> 25])
 @@ ("reverse_wrist_curl" :>
        [primary |-> <<"forearm_extensors">>,
         secondary |-> <<>>,
         sfr |-> 38])
 @@ ("nordic_hamstring_curl" :>
        [primary |-> <<"hamstrings">>,
         secondary |-> <<"glutes">>,
         sfr |-> 38])
 @@ ("sled_leg_press" :>
        [primary |-> <<"quads", "glutes">>,
         secondary |-> <<"hamstrings">>,
         sfr |-> 40])
 @@ ("mace_swings" :>
        [primary |-> <<"triceps", "front_delts">>,
         secondary |-> <<"abs", "forearm_flexors", "brachioradialis">>,
         sfr |-> 25])
 @@ ("forearm_riser_rope" :>
        [primary |-> <<"forearm_flexors", "forearm_extensors">>,
         secondary |-> <<>>,
         sfr |-> 38])
 @@ ("forearm_pronations_rope" :>
        [primary |-> <<"forearm_extensors", "brachioradialis">>,
         secondary |-> <<>>,
         sfr |-> 38])
 @@ ("bench_press" :>
        [primary |-> <<"chest">>,
         secondary |-> <<"triceps", "front_delts">>,
         sfr |-> 35])
 @@ ("incline_dumbbell_curl" :>
        [primary |-> <<"biceps">>,
         secondary |-> <<"brachioradialis", "forearm_flexors">>,
         sfr |-> 43])
 @@ ("squat" :>
        [primary |-> <<"quads", "glutes">>,
         secondary |-> <<"hamstrings", "lower_back">>,
         sfr |-> 30])
 @@ ("cable_bicep_curl" :>
        [primary |-> <<"biceps">>,
         secondary |-> <<"brachioradialis", "forearm_flexors">>,
         sfr |-> 43])
 @@ ("pseudo_planche_push_up" :>
        [primary |-> <<"chest", "front_delts">>,
         secondary |-> <<"triceps", "abs">>,
         sfr |-> 30])
 @@ ("rear_pec_fly_with_expander" :>
        [primary |-> <<"rear_delts", "traps">>,
         secondary |-> <<>>,
         sfr |-> 40])
 @@ ("deadlift" :>
        [primary |-> <<"hamstrings", "glutes", "lower_back">>,
         secondary |-> <<"traps", "forearm_flexors", "brachioradialis">>,
         sfr |-> 20])
 @@ ("dumbbell_fly" :>
        [primary |-> <<"chest">>,
         secondary |-> <<"front_delts">>,
         sfr |-> 35])
 @@ ("one_arm_pull_ups" :>
        [primary |-> <<"lats", "traps">>,
         secondary |-> <<"biceps", "brachioradialis", "forearm_flexors">>,
         sfr |-> 28])
 @@ ("one_arm_deadhang" :>
        [primary |-> <<"forearm_flexors", "brachioradialis", "lats">>,
         secondary |-> <<>>,
         sfr |-> 30])
 @@ ("incline_dumbbell_fly" :>
        [primary |-> <<"chest">>,
         secondary |-> <<"front_delts">>,
         sfr |-> 34])
 @@ ("hammer_curl" :>
        [primary |-> <<"biceps", "brachioradialis">>,
         secondary |-> <<"forearm_flexors">>,
         sfr |-> 42])
 @@ ("paused_bench_press" :>
        [primary |-> <<"chest">>,
         secondary |-> <<"triceps", "front_delts">>,
         sfr |-> 33])
 @@ ("alternating_kettlebell_hang_clean" :>
        [primary |-> <<"quads", "glutes", "lower_back">>,
         secondary |-> <<"hamstrings", "calves", "front_delts">>,
         sfr |-> 23])
 @@ ("dumbbell_shoulder_press" :>
        [primary |-> <<"front_delts">>,
         secondary |-> <<"side_delts", "triceps">>,
         sfr |-> 35])
 @@ ("back_press" :>
        [primary |-> <<"side_delts", "triceps">>,
         secondary |-> <<>>,
         sfr |-> 30])
 @@ ("seated_cable_row" :>
        [primary |-> <<"traps">>,
         secondary |-> <<"lats", "rear_delts", "biceps">>,
         sfr |-> 38])
 @@ ("overhead_pullapart_pronated" :>
        [primary |-> <<"rear_delts", "traps">>,
         secondary |-> <<>>,
         sfr |-> 40])
 @@ ("incline_bench_press" :>
        [primary |-> <<"chest", "front_delts">>,
         secondary |-> <<"triceps">>,
         sfr |-> 35])
 @@ ("lat_pulldown" :>
        [primary |-> <<"lats">>,
         secondary |-> <<"biceps", "rear_delts", "brachioradialis">>,
         sfr |-> 38])
 @@ ("dips" :>
        [primary |-> <<"triceps", "chest">>,
         secondary |-> <<"front_delts">>,
         sfr |-> 32])
 @@ ("seated_dumbbell_shoulder_press" :>
        [primary |-> <<"front_delts">>,
         secondary |-> <<"side_delts", "triceps">>,
         sfr |-> 36])
 @@ ("romanian_deadlift" :>
        [primary |-> <<"hamstrings", "glutes">>,
         secondary |-> <<"lower_back", "forearm_flexors", "brachioradialis">>,
         sfr |-> 23])
 @@ ("bicep_curl" :>
        [primary |-> <<"biceps">>,
         secondary |-> <<"brachioradialis", "forearm_flexors">>,
         sfr |-> 45])
 @@ ("tricep_pushdown" :>
        [primary |-> <<"triceps">>,
         secondary |-> <<>>,
         sfr |-> 40])
 @@ ("leg_press" :>
        [primary |-> <<"quads", "glutes">>,
         secondary |-> <<"hamstrings">>,
         sfr |-> 40])
 @@ ("leg_curl" :>
        [primary |-> <<"hamstrings">>,
         secondary |-> <<>>,
         sfr |-> 40])
 @@ ("calf_raise" :>
        [primary |-> <<"calves">>,
         secondary |-> <<>>,
         sfr |-> 40])
 @@ ("ab_wheel" :>
        [primary |-> <<"abs">>,
         secondary |-> <<"lower_back">>,
         sfr |-> 35])

(***************************************************************************)
(* Values shared by the layers.                                            *)
(***************************************************************************)
\* An optional value (Python's None or a value): the empty or the one-element
\* sequence.
None == <<>>

Some(v) == <<v>>

\* Ticks to the day: the resolution of an instant (the program divides seconds
\* by 86400.0; the model divides ticks by TicksPerDay).
TicksPerDay == 2

\* datetime.isoformat(): the text of an instant, a calendar date and a time of
\* day.
isoformat(dt) == [date |-> dt \div TicksPerDay, time |-> dt % TicksPerDay]

\* datetime.fromisoformat(): the instant a text denotes.
fromisoformat(text) == text.date * TicksPerDay + text.time

\* dt.date().isoformat(): the calendar date of an instant, the key of the
\* daily entries.
date_isoformat(dt) == dt \div TicksPerDay

(***************************************************************************)
(* recovery_logic.py: parameters and helper functions.                     *)
(***************************************************************************)
\* Fixed point: FP is 1.0 for exp() and its argument, RAW_ONE is 1.0 for raw
\* fatigue, and 100 * RAW_ONE is 100 % of readiness.
FP == 10000

RAW_ONE == 1000000

\* ln 2 in FP units (math.log(2.0)).
LN2 == 6931

\* Fallback half-life, in tenths of a day.
DEFAULT_HALF_LIFE_DAYS == 20

\* Per-muscle half-lives, in tenths of a day.
MUSCLE_HALF_LIFE_DAYS ==
    ("quads" :> 27)
 @@ ("hamstrings" :> 27)
 @@ ("glutes" :> 27)
 @@ ("calves" :> 23)
 @@ ("lower_back" :> 28)
 @@ ("back" :> 23)
 @@ ("lats" :> 22)
 @@ ("chest" :> 22)
 @@ ("front_delts" :> 20)
 @@ ("side_delts" :> 18)
 @@ ("rear_delts" :> 18)
 @@ ("biceps" :> 16)
 @@ ("triceps" :> 16)
 @@ ("forearm_flexors" :> 13)
 @@ ("forearm_extensors" :> 13)
 @@ ("brachioradialis" :> 13)
 @@ ("neck_flexors" :> 16)
 @@ ("neck_extensors" :> 16)
 @@ ("abs" :> 15)

get_half_life_days(muscle) ==
    IF muscle \in DOMAIN MUSCLE_HALF_LIFE_DAYS
    THEN MUSCLE_HALF_LIFE_DAYS[muscle]
    ELSE DEFAULT_HALF_LIFE_DAYS

\* After this many days a set is treated as fully recovered.
RECOVERY_HORIZON_DAYS == 5

\* The effort multiplier as it would be with the table read upside down
\* (easy sets counted as the hard ones).
effort_multiplier_upside_down(rir) ==
    IF rir = None THEN 7
    ELSE IF rir[1] >= 4 THEN 12
    ELSE IF rir[1] = 3 THEN 10
    ELSE IF rir[1] = 2 THEN 8
    ELSE IF rir[1] = 1 THEN 6
    ELSE IF rir[1] <= 0 THEN 4
    ELSE 7

\* The effort multiplier of a set, in tenths, from its optional RIR.
effort_multiplier_from_rir(rir) ==
    IF rir = None THEN 7
    ELSE IF rir[1] >= 4 THEN 4
    ELSE IF rir[1] = 3 THEN 6
    ELSE IF rir[1] = 2 THEN 8
    ELSE IF rir[1] = 1 THEN 10
    ELSE IF rir[1] <= 0 THEN 12
    ELSE 7

\* The sleep factor, in hundredths, from the optional sleep hours (in tenths of
\* an hour).
sleep_factor(hours) ==
    IF hours = None THEN 100
    ELSE IF hours[1] < 60 THEN 70
    ELSE IF hours[1] < 75 THEN 100
    ELSE IF hours[1] <= 90 THEN 110
    ELSE 95

\* The steps factor, in hundredths, from the optional step count.
steps_factor(steps) ==
    IF steps = None THEN 100
    ELSE IF steps[1] < 3000 THEN 80
    ELSE IF steps[1] <= 10000 THEN 100
    ELSE IF steps[1] <= 15000 THEN 95
    ELSE 90

\* math.exp(y) for y >= 0 in FP units: the Taylor series, summed until a term
\* rounds to zero.
RECURSIVE ExpSeries(_, _, _)
ExpSeries(y, term, n) ==
    IF term = 0 THEN 0
    ELSE term + ExpSeries(y, (term * y) \div (FP * n), n + 1)

\* math.exp(-y) for y >= 0, in FP units.
exp_neg(y) == (FP * FP) \div ExpSeries(y, FP, 1)

Min(a, b) == IF a <= b THEN a ELSE b

Max(a, b) == IF a >= b THEN a ELSE b

RECURSIVE SumSeq(_)
SumSeq(s) == IF s = <<>> THEN 0 ELSE Head(s) + SumSeq(Tail(s))

\* [x for x in records if x.get("user_id") == user_id]
SelectUser(records, user_id) == SelectSeq(records, LAMBDA x : x.user_id = user_id)

\* daily_by_date.get(date_key): of the entries of one date the last one (a dict
\* comprehension keeps the last value of a key), or None.
day_info_of(user_daily, date_key) ==
    LET hits == {i \in DOMAIN user_daily : user_daily[i].date = date_key}
    IN  IF hits = {} THEN None
        ELSE Some(user_daily[CHOOSE i \in hits : \A j \in hits : j <= i])

\* The window test as it would be with the horizon compared by > instead of >=.
in_window_late(ticks_since) ==
    /\ ~(ticks_since < 0)
    /\ ~(ticks_since > RECOVERY_HORIZON_DAYS * TicksPerDay)

\* A set counts when it is not in the future of the reference instant and
\* younger than the recovery horizon (the two `continue` tests on days_since).
in_window(ticks_since) ==
    /\ ~(ticks_since < 0)
    /\ ~(ticks_since >= RECOVERY_HORIZON_DAYS * TicksPerDay)

\* set_contribution as it would be if a set of an exercise the catalog lacks
\* were charged like a deadlift.
set_contribution_any_exercise(s, user_daily, as_of, m) ==
    LET ts == fromisoformat(s.timestamp)
        ticks_since == as_of - ts
        day_info == day_info_of(user_daily, date_isoformat(ts))
        sf == IF day_info # None THEN sleep_factor(day_info[1].sleep_hours) ELSE 100
        stf == IF day_info # None THEN steps_factor(day_info[1].steps) ELSE 100
    IN  IF ~in_window(ticks_since) THEN 0
        ELSE
          LET ex == IF s.exercise_id \in DOMAIN EXERCISES
                    THEN EXERCISES[s.exercise_id]
                    ELSE EXERCISES["deadlift"]
              effort_mult == effort_multiplier_from_rir(s.rir)
              \* weights in halves: 2 for a primary, 1 for a secondary muscle
              muscles_and_weights ==
                  [i \in DOMAIN ex.primary |-> <<ex.primary[i], 2>>]
                  \o [i \in DOMAIN ex.secondary |-> <<ex.secondary[i], 1>>]
              half_life == get_half_life_days(m)
              base_lambda == (LN2 * 10) \div half_life
              effective_lambda == (base_lambda * sf * stf) \div 10000
              decay == exp_neg((effective_lambda * ticks_since) \div TicksPerDay)
              \* effort_mult/10 * 1/(sfr/10) * weight/2 * decay/FP, in RAW_ONE
              contrib(weight) ==
                  (effort_mult * weight * decay * (RAW_ONE \div (2 * FP))) \div ex.sfr
          IN  SumSeq([i \in DOMAIN muscles_and_weights |->
                        IF muscles_and_weights[i][1] = m
                        THEN contrib(muscles_and_weights[i][2])
                        ELSE 0])

\* The fatigue one stored set adds to one muscle as of an instant, in RAW_ONE
\* units: the body of the loop over the user's sets.
set_contribution(s, user_daily, as_of, m) ==
    LET ts == fromisoformat(s.timestamp)
        ticks_since == as_of - ts
        day_info == day_info_of(user_daily, date_isoformat(ts))
        sf == IF day_info # None THEN sleep_factor(day_info[1].sleep_hours) ELSE 100
        stf == IF day_info # None THEN steps_factor(day_info[1].steps) ELSE 100
    IN  IF ~in_window(ticks_since) THEN 0
        ELSE IF s.exercise_id \notin DOMAIN EXERCISES THEN 0
        ELSE
          LET ex == EXERCISES[s.exercise_id]
              effort_mult == effort_multiplier_from_rir(s.rir)
              \* weights in halves: 2 for a primary, 1 for a secondary muscle
              muscles_and_weights ==
                  [i \in DOMAIN ex.primary |-> <<ex.primary[i], 2>>]
                  \o [i \in DOMAIN ex.secondary |-> <<ex.secondary[i], 1>>]
              half_life == get_half_life_days(m)
              base_lambda == (LN2 * 10) \div half_life
              effective_lambda == (base_lambda * sf * stf) \div 10000
              decay == exp_neg((effective_lambda * ticks_since) \div TicksPerDay)
              \* effort_mult/10 * 1/(sfr/10) * weight/2 * decay/FP, in RAW_ONE
              contrib(weight) ==
                  (effort_mult * weight * decay * (RAW_ONE \div (2 * FP))) \div ex.sfr
          IN  SumSeq([i \in DOMAIN muscles_and_weights |->
                        IF muscles_and_weights[i][1] = m
                        THEN contrib(muscles_and_weights[i][2])
                        ELSE 0])

\* Scale of raw fatigue to per cent.
SCALE_PER_UNIT == 60

\* Scaled fatigue below 9.9 % is treated as none.
EPS == 9900000

\* Raw fatigue to readiness as it would be without the clamps.
readiness_of_raw_unclamped(raw) ==
    LET scaled == raw * SCALE_PER_UNIT
        scaled_fatigue == IF scaled < EPS THEN 0 ELSE scaled
    IN  100 * RAW_ONE - scaled_fatigue

\* Raw fatigue to readiness: the body of the loop over MUSCLES.
readiness_of_raw(raw) ==
    LET scaled == raw * SCALE_PER_UNIT
        scaled_fatigue == IF scaled < EPS THEN 0 ELSE Min(scaled, 100 * RAW_ONE)
    IN  Max(0, 100 * RAW_ONE - scaled_fatigue)

MuscleSet == {MUSCLES[i] : i \in DOMAIN MUSCLES}

\* compute_current_muscle_readiness as it would be if the daily entries of
\* every user were looked up.
readiness_from_any_daily(all_sets, all_daily, user_id, as_of) ==
    LET user_sets == SelectUser(all_sets, user_id)
        user_daily == all_daily
        fatigue(m) ==
            SumSeq([i \in DOMAIN user_sets |->
                      set_contribution(user_sets[i], user_daily, as_of, m)])
    IN  [m \in MuscleSet |-> readiness_of_raw(fatigue(m))]

\* compute_current_muscle_readiness on given store contents.
readiness_from(all_sets, all_daily, user_id, as_of) ==
    LET user_sets == SelectUser(all_sets, user_id)
        user_daily == SelectUser(all_daily, user_id)
        fatigue(m) ==
            SumSeq([i \in DOMAIN user_sets |->
                      set_contribution(user_sets[i], user_daily, as_of, m)])
    IN  [m \in MuscleSet |-> readiness_of_raw(fatigue(m))]

\* A readiness given in per cent.
Percent(n) == n * RAW_ONE

\* classify_muscle as it would be with the bands open below.
classify_muscle_open(readiness) ==
    IF readiness > Percent(95) THEN "FULLY FRESH"
    ELSE IF readiness > Percent(80) THEN "ALMOST FRESH"
    ELSE IF readiness > Percent(60) THEN "SLIGHTLY FATIGUED"
    ELSE IF readiness > Percent(40) THEN "MODERATLY FATIGUED"
    ELSE IF readiness = 0 THEN "YOU DESTROYED THIS MUSCLE"
    ELSE "VERY FATIGUED"

\* classify_muscle: the label of a readiness (the labels without their
\* leading emoji).
classify_muscle(readiness) ==
    IF readiness >= Percent(95) THEN "FULLY FRESH"
    ELSE IF readiness >= Percent(80) THEN "ALMOST FRESH"
    ELSE IF readiness >= Percent(60) THEN "SLIGHTLY FATIGUED"
    ELSE IF readiness >= Percent(40) THEN "MODERATLY FATIGUED"
    ELSE IF readiness = 0 THEN "YOU DESTROYED THIS MUSCLE"
    ELSE "VERY FATIGUED"

\* muscle_readiness.get(m, 100.0)
readiness_get(muscle_readiness, m) ==
    IF m \in DOMAIN muscle_readiness THEN muscle_readiness[m] ELSE Percent(100)

\* all(muscle_readiness.get(m, 100.0) >= bar for m in muscles)
all_ready(muscle_readiness, muscles, bar) ==
    \A i \in DOMAIN muscles : readiness_get(muscle_readiness, muscles[i]) >= bar

\* classify_exercise as it would be if "moderate" asked of the primary
\* muscles what "full_power" asks.
classify_exercise_strict(exercise_id, muscle_readiness) ==
    LET ex == EXERCISES[exercise_id]
    IN  IF /\ all_ready(muscle_readiness, ex.primary, Percent(80))
           /\ all_ready(muscle_readiness, ex.secondary, Percent(60))
        THEN "full_power"
        ELSE IF /\ all_ready(muscle_readiness, ex.primary, Percent(80))
                /\ all_ready(muscle_readiness, ex.secondary, Percent(50))
        THEN "moderate"
        ELSE "fatigued"

\* classify_exercise
classify_exercise(exercise_id, muscle_readiness) ==
    LET ex == EXERCISES[exercise_id]
        prim == ex.primary
        sec == ex.secondary
        prim_ready_full == all_ready(muscle_readiness, prim, Percent(80))
        sec_ready_full == all_ready(muscle_readiness, sec, Percent(60))
        prim_ready_mod == all_ready(muscle_readiness, prim, Percent(60))
        sec_ready_mod == all_ready(muscle_readiness, sec, Percent(50))
    IN  IF prim_ready_full /\ sec_ready_full THEN "full_power"
        ELSE IF prim_ready_mod /\ sec_ready_mod THEN "moderate"
        ELSE "fatigued"

(***************************************************************************)
(* State.                                                                  *)
(***************************************************************************)
VARIABLES
    data_file,     \* data.json: [sets |-> <<LoggedSet>>, daily |-> <<entry>>]
    clock,         \* datetime.now(), in ticks
    last,          \* the call that completed last: name, arguments, result
    round_trip,    \* how far a log_set, delete, delete sequence has come
    latest_daily,  \* per user, the arguments and date of the latest
                   \* log_daily_recovery call (None before the first)
    users_file,    \* users.json: the "users" list of account records
    created,       \* trimmed username -> password, of every create_user
                   \* call that returned success
    session,       \* st.session_state of one dashboard session
    screen,        \* what the last run of the dashboard script rendered
    verified,      \* the trimmed usernames verify_user accepted in the session
    cli,           \* the text-menu client: the prompt it waits at and the
                   \* answers of the dialogue it holds
    writers        \* per concurrent log_set call: how far it has come, its
                   \* arguments and the data it holds in memory

\* The variables of the account store and the dashboard session.
authVars == <<users_file, created, session, screen, verified>>

\* The variables of the persistence layer, and those kept about its calls.
storeVars == <<data_file, clock, round_trip, latest_daily>>

\* The variables of the text-menu client and of the concurrent writers.
clientVars == <<cli, writers>>

vars == <<data_file, clock, last, round_trip, latest_daily,
          users_file, created, session, screen, verified, cli, writers>>

\* No call yet.
NoCall == [op |-> "none"]

\* No round trip under way.
NoTrip == [stage |-> 0]

(***************************************************************************)
(* storage.py                                                              *)
(***************************************************************************)
\* An absent or empty data.json reads as two empty collections.
EmptyData == [sets |-> <<>>, daily |-> <<>>]

_load_data == data_file

\* log_set as it would be if it stamped every record with now(), whatever
\* timestamp the caller gave.
log_set_stamps_now(data, user_id, exercise_id, reps, weight, rir, timestamp, now) ==
    [data EXCEPT !.sets =
        Append(@, [user_id |-> user_id,
                   exercise_id |-> exercise_id,
                   reps |-> reps,
                   weight |-> weight,
                   rir |-> rir,
                   timestamp |-> isoformat(now)])]

\* log_set: the contents of data.json after the call.  reps is an int and
\* weight a number already, so int(reps) and float(weight) keep their values.
log_set(data, user_id, exercise_id, reps, weight, rir, timestamp, now) ==
    LET ts == IF timestamp = None THEN now ELSE timestamp[1]
    IN  [data EXCEPT !.sets =
            Append(@, [user_id |-> user_id,
                       exercise_id |-> exercise_id,
                       reps |-> reps,
                       weight |-> weight,
                       rir |-> rir,
                       timestamp |-> isoformat(ts)])]

\* log_daily_recovery as it would be if it removed the entries of the date,
\* whoever they belong to.
log_daily_recovery_drops_date(data, user_id, sleep_hours, steps, now) ==
    LET today == date_isoformat(now)
        Same(d) == d.date = today
    IN  [data EXCEPT !.daily =
            Append(SelectSeq(@, LAMBDA d : ~Same(d)),
                   [user_id |-> user_id,
                    date |-> today,
                    sleep_hours |-> sleep_hours,
                    steps |-> steps])]

\* log_daily_recovery: the contents of data.json after the call.
log_daily_recovery(data, user_id, sleep_hours, steps, now) ==
    LET today == date_isoformat(now)
        Same(d) == d.user_id = user_id /\ d.date = today
    IN  [data EXCEPT !.daily =
            Append(SelectSeq(@, LAMBDA d : ~Same(d)),
                   [user_id |-> user_id,
                    date |-> today,
                    sleep_hours |-> sleep_hours,
                    steps |-> steps])]

get_all_sets == _load_data.sets

get_all_daily == _load_data.daily

\* delete_set_by_timestamp: the contents of data.json after the call (written
\* only when a record went) and the value returned.
delete_set_by_timestamp(data, user_id, timestamp) ==
    LET before == Len(data.sets)
        Hit(s) == s.user_id = user_id /\ s.timestamp = timestamp
        kept == SelectSeq(data.sets, LAMBDA s : ~Hit(s))
        after == Len(kept)
    IN  IF after < before
        THEN [data |-> [data EXCEPT !.sets = kept], ret |-> TRUE]
        ELSE [data |-> data, ret |-> FALSE]

(***************************************************************************)
(* auth.py                                                                 *)
(***************************************************************************)
\* A text (username, password) is the sequence of its characters.
Whitespace == {" ", "\t", "\n"}

RECURSIVE lstrip(_)
lstrip(text) ==
    IF text # <<>> /\ Head(text) \in Whitespace THEN lstrip(Tail(text)) ELSE text

RECURSIVE rstrip(_)
rstrip(text) ==
    IF text # <<>> /\ text[Len(text)] \in Whitespace
    THEN rstrip(SubSeq(text, 1, Len(text) - 1))
    ELSE text

\* str.strip()
strip(text) == rstrip(lstrip(text))

\* An absent or empty users.json reads as an empty list of users.
NoUsers == <<>>

_load_users == users_file

\* hashlib.pbkdf2_hmac("sha256", password, salt, 100_000): a digest that is
\* equal for equal password and salt and for no others (collisions of the
\* hash are not modelled).
pbkdf2_hmac(password, salt) == [digest_of |-> password, salted_with |-> salt]

\* A text of hexadecimal digits and colons is the sequence of its parts: a
\* colon, or the digits bytes.hex() gave.
Colon == [colon |-> TRUE, hex |-> <<>>]

\* bytes.hex() and bytes.fromhex()
hex(bytes) == [colon |-> FALSE, hex |-> bytes]

fromhex(text) == text.hex

\* str.split(":")
split(text) == SelectSeq(text, LAMBDA part : ~part.colon)

\* _hash_password: "HEX_SALT:HEX_HASH"
_hash_password(password, salt) ==
    <<hex(salt), Colon, hex(pbkdf2_hmac(password, salt))>>

\* _verify_password as it would be without the comparison of the hashes.
_verify_password_unchecked(password, stored) ==
    Len(split(stored)) = 2

\* _verify_password: False when the stored text does not split in two at the
\* colon, else whether the password hashes, with the stored salt, to the
\* stored hash.
_verify_password(password, stored) ==
    LET parts == split(stored)
    IN  IF Len(parts) # 2 THEN FALSE
        ELSE LET salt == fromhex(parts[1])
                 expected_hash == fromhex(parts[2])
             IN  pbkdf2_hmac(password, salt) = expected_hash

\* The first account of a username, or 0.
FirstUser(users, username) ==
    LET hits == {i \in DOMAIN users : users[i].username = username}
    IN  IF hits = {} THEN 0 ELSE CHOOSE i \in hits : \A j \in hits : i <= j

\* create_user as it would be if it stored the username as typed.
create_user_untrimmed(users, username, password, salt, now) ==
    IF strip(username) = <<>>
    THEN [ok |-> FALSE, msg |-> "Username cannot be empty.", users |-> users]
    ELSE IF Len(password) < 6
    THEN [ok |-> FALSE, msg |-> "Password must be at least 6 characters.",
          users |-> users]
    ELSE IF FirstUser(users, username) # 0
    THEN [ok |-> FALSE, msg |-> "Username already exists.", users |-> users]
    ELSE [ok |-> TRUE, msg |-> "User created successfully.",
          users |-> Append(users, [username |-> username,
                                   password_hash |-> _hash_password(password, salt),
                                   created_at |-> isoformat(now)])]

\* create_user as it would be with the length test off by one.
create_user_five(users, username, password, salt, now) ==
    LET name == strip(username)
    IN  IF name = <<>>
        THEN [ok |-> FALSE, msg |-> "Username cannot be empty.", users |-> users]
        ELSE IF Len(password) < 5
        THEN [ok |-> FALSE, msg |-> "Password must be at least 6 characters.",
              users |-> users]
        ELSE IF FirstUser(users, name) # 0
        THEN [ok |-> FALSE, msg |-> "Username already exists.", users |-> users]
        ELSE [ok |-> TRUE, msg |-> "User created successfully.",
              users |-> Append(users, [username |-> name,
                                       password_hash |-> _hash_password(password, salt),
                                       created_at |-> isoformat(now)])]

\* create_user: the pair returned and the contents of users.json after the
\* call; salt is what os.urandom(16) gave.
create_user(users, username, password, salt, now) ==
    LET name == strip(username)
    IN  IF name = <<>>
        THEN [ok |-> FALSE, msg |-> "Username cannot be empty.", users |-> users]
        ELSE IF Len(password) < 6
        THEN [ok |-> FALSE, msg |-> "Password must be at least 6 characters.",
              users |-> users]
        ELSE IF FirstUser(users, name) # 0
        THEN [ok |-> FALSE, msg |-> "Username already exists.", users |-> users]
        ELSE [ok |-> TRUE, msg |-> "User created successfully.",
              users |-> Append(users, [username |-> name,
                                       password_hash |-> _hash_password(password, salt),
                                       created_at |-> isoformat(now)])]

\* verify_user
verify_user(users, username, password) ==
    LET name == strip(username)
    IN  IF name = <<>> THEN FALSE
        ELSE IF FirstUser(users, name) # 0
        THEN _verify_password(password, users[FirstUser(users, name)].password_hash)
        ELSE FALSE

\* The salts os.urandom(16) gives.
Salts == {"5a17", "c0de"}

\* The passwords a successful create_user call has so far been given, with
\* the one of this call.
Remember(username, password) ==
    [n \in DOMAIN created \cup {strip(username)} |->
        IF n = strip(username) THEN password ELSE created[n]]

CreateUser(username, password) ==
    \E salt \in Salts :
        LET r == create_user(_load_users, username, password, salt, clock)
        IN  /\ users_file' = r.users
            /\ created' = IF r.ok THEN Remember(username, password) ELSE created
            /\ last' = [op |-> "create_user", username |-> username,
                        password |-> password, ok |-> r.ok, msg |-> r.msg,
                        before |-> users_file]
            /\ UNCHANGED <<storeVars, session, screen, verified, clientVars>>

VerifyUser(username, password) ==
    /\ last' = [op |-> "verify_user", username |-> username,
                password |-> password,
                ret |-> verify_user(_load_users, username, password)]
    /\ UNCHANGED <<storeVars, authVars, clientVars>>

\* The usernames typed: two names, one of them also with whitespace around
\* it, a blank one and an empty one.
Usernames ==
    {<<"a", "l">>, <<" ", "a", "l", "\t">>, <<"b", "o">>, <<" ">>, <<>>}

\* The passwords typed: of 6, 7 and 5 characters.
Passwords ==
    {<<"s", "e", "c", "r", "e", "t">>,
     <<"h", "u", "n", "t", "e", "r", "2">>,
     <<"s", "h", "o", "r", "t">>}

(***************************************************************************)
(* app_streamlit.py: the login screen and the gate before the main view.   *)
(* Every interaction runs the script from the top with the session state   *)
(* the run before left; st.rerun() starts the next run at once.            *)
(***************************************************************************)
\* st.session_state without "user_id".
NoSession == [user_id |-> None]

\* The gate: without "user_id" in the session state the script renders the
\* login screen and stops, else it goes on to the main view.
auth_gate(session_state) ==
    IF session_state.user_id = None THEN "login" ELSE "main"

\* The "Create account" button of the login screen: the message shown and
\* the contents of users.json after the run.
login_screen_create_account(users, username, password, password2, salt, now) ==
    IF password # password2
    THEN [ok |-> FALSE, msg |-> "Passwords do not match.", users |-> users]
    ELSE create_user(users, username, password, salt, now)

\* The "Log in" button as it would be if it did not ask verify_user.
login_screen_log_in_unverified(session_state, users, username, password) ==
    [ok |-> verify_user(users, username, password),
     msg |-> "",
     session_state |-> [session_state EXCEPT !.user_id = Some(strip(username))]]

\* The "Log in" button of the login screen: what verify_user said, the
\* message shown and the session state after the run.
login_screen_log_in(session_state, users, username, password) ==
    IF verify_user(users, username, password)
    THEN [ok |-> TRUE, msg |-> "",
          session_state |-> [session_state EXCEPT !.user_id = Some(strip(username))]]
    ELSE [ok |-> FALSE, msg |-> "Invalid username or password.",
          session_state |-> session_state]

\* The "Log out" button of the sidebar: st.session_state.pop("user_id", None).
log_out(session_state) == [session_state EXCEPT !.user_id = None]

(***************************************************************************)
(* app_streamlit.py: the main view.  A run of the script past the gate     *)
(* works out whose data is viewed, handles the "Add set" form of the       *)
(* sidebar and renders the Dashboard and the History tab.                  *)
(***************************************************************************)
\* Who is allowed to use the admin tools.
ADMIN_USERS == {<<"A", "h", "m", "e", "d">>}

\* The usernames the admin's selector offers.
usernames_of(users) == [i \in DOMAIN users |-> users[i].username]

\* st.selectbox: the option the user chose, or the one at the default index
\* (choice is None, or Some of an index of options).
selectbox(options, index, choice) ==
    IF choice # None /\ choice[1] \in DOMAIN options
    THEN options[choice[1]]
    ELSE options[index]

\* view_user_id as it would be if the selector were offered to everybody.
view_user_id_for_all(USER_ID, users, choice) ==
    LET usernames == usernames_of(users)
        default_idx == IF FirstUser(users, USER_ID) # 0
                       THEN FirstUser(users, USER_ID) ELSE 1
    IN  IF usernames # <<>>
        THEN selectbox(usernames, default_idx, choice)
        ELSE USER_ID

\* Admin impersonation: the identity whose data the run shows.
view_user_id(USER_ID, users, choice) ==
    LET usernames == usernames_of(users)
        default_idx == IF FirstUser(users, USER_ID) # 0
                       THEN FirstUser(users, USER_ID) ELSE 1
    IN  IF USER_ID \in ADMIN_USERS
        THEN IF usernames # <<>>
             THEN selectbox(usernames, default_idx, choice)
             ELSE USER_ID
        ELSE USER_ID

\* st.number_input with integer bounds: the number entered when it is within
\* the bounds, else the widget keeps its value.
number_input(min_value, max_value, value, entered) ==
    IF min_value <= entered /\ entered <= max_value THEN entered ELSE value

\* The "Add set" button as it would be if it wrote under the viewed identity.
add_set_as_viewed(data, USER_ID, viewed, selected_ex_id, reps, weight, rir_input, ts, now) ==
    log_set(data, viewed, selected_ex_id,
            number_input(1, 100, 8, reps),
            number_input(0, 10000, 600, weight),
            Some(number_input(0, 5, 2, rir_input)), ts, now)

\* The "Add set" button: the contents of data.json after log_set.  reps,
\* weight (in tenths of a kilogram) and rir_input are what was entered in
\* the three number inputs, ts the custom time (None without one).
add_set(data, USER_ID, viewed, selected_ex_id, reps, weight, rir_input, ts, now) ==
    log_set(data, USER_ID, selected_ex_id,
            number_input(1, 100, 8, reps),
            number_input(0, 10000, 600, weight),
            Some(number_input(0, 5, 2, rir_input)), ts, now)

\* The readiness the Dashboard tab shows: of now, or of days_ahead (in
\* ticks) from now.
readiness_shown(data, viewed, days_ahead, now) ==
    readiness_from(data.sets, data.daily, viewed, now + days_ahead)

\* Whether the ISO text a is after the ISO text b.
Later(a, b) == a.date > b.date \/ (a.date = b.date /\ a.time > b.time)

\* sorted(..., key = timestamp, reverse = True): x put into a sequence that
\* is sorted already, behind the records that are not before it.
RECURSIVE InsertDesc(_, _)
InsertDesc(sorted, x) ==
    IF sorted = <<>> THEN <<x>>
    ELSE IF Later(x.timestamp, Head(sorted).timestamp) THEN <<x>> \o sorted
    ELSE <<Head(sorted)>> \o InsertDesc(Tail(sorted), x)

RECURSIVE SortedDesc(_, _)
SortedDesc(sorted, rest) ==
    IF rest = <<>> THEN sorted
    ELSE SortedDesc(InsertDesc(sorted, Head(rest)), Tail(rest))

\* The recent-sets panel: the 20 latest sets of the viewed identity.
recent_sets(data, viewed) ==
    LET all_sets == SortedDesc(<<>>, SelectUser(data.sets, viewed))
    IN  SubSeq(all_sets, 1, Min(20, Len(all_sets)))

\* s.get("id", ""): log_set stores no "id".
id_of(s) == IF "id" \in DOMAIN s THEN s.id ELSE ""

\* The rows the deletion control offers: those with an ID.
delete_options(recent) == SelectSeq(recent, LAMBDA s : id_of(s) # "")

\* date.weekday(): 0 for a Monday; day 0 is 1970-01-01, a Thursday.
weekday(d) == (d + 3) % 7

\* Monday of that week.
week_start_of(selected_day) == selected_day - weekday(selected_day)

\* The rows of one set: its date and, in tenths of a set, 1.0 for each
\* primary and 0.5 for each secondary muscle (the catalog has no tertiary
\* muscles); none for an exercise the catalog lacks.
rows_of_set(s) ==
    IF s.exercise_id \notin DOMAIN EXERCISES THEN <<>>
    ELSE LET ex == EXERCISES[s.exercise_id]
             d == fromisoformat(s.timestamp) \div TicksPerDay
         IN  [i \in DOMAIN ex.primary |->
                 [date |-> d, muscle |-> ex.primary[i], sets |-> 10]]
             \o [i \in DOMAIN ex.secondary |->
                 [date |-> d, muscle |-> ex.secondary[i], sets |-> 5]]

RECURSIVE history_rows(_)
history_rows(all_sets) ==
    IF all_sets = <<>> THEN <<>>
    ELSE rows_of_set(Head(all_sets)) \o history_rows(Tail(all_sets))

\* df.groupby(["date", "muscle"])["sets"].sum(): per date and muscle that
\* has a row, the sum of its rows.
groupby_date_muscle(rows) ==
    [k \in {<<rows[i].date, rows[i].muscle>> : i \in DOMAIN rows} |->
        SumSeq([i \in DOMAIN rows |->
                  IF rows[i].date = k[1] /\ rows[i].muscle = k[2]
                  THEN rows[i].sets ELSE 0])]

\* The sum of df over the keys ks.
RECURSIVE SumOver(_, _)
SumOver(df, ks) ==
    IF ks = {} THEN 0
    ELSE LET k == CHOOSE x \in ks : TRUE
         IN  df[k] + SumOver(df, ks \ {k})

\* df_week_sum as it would be with a week that ends on its Saturday.
df_week_sum_six_days(rows, selected_day) ==
    LET df_hist == groupby_date_muscle(rows)
        week_days == {week_start_of(selected_day) + i : i \in 0..5}
        df_week == {k \in DOMAIN df_hist : k[1] \in week_days}
    IN  [m \in MuscleSet |-> SumOver(df_hist, {k \in df_week : k[2] = m})]

\* The weekly sets per muscle of the History tab: the rows summed per date
\* and muscle, those of the seven days of the week kept and summed per
\* muscle, and every muscle without one filled in with 0.
df_week_sum(rows, selected_day) ==
    LET df_hist == groupby_date_muscle(rows)
        week_days == {week_start_of(selected_day) + i : i \in 0..6}
        df_week == {k \in DOMAIN df_hist : k[1] \in week_days}
    IN  [m \in MuscleSet |-> SumOver(df_hist, {k \in df_week : k[2] = m})]

\* The History tab: a note when the viewed identity has no sets, or none
\* with a catalog exercise; else the week of the picked date and its sums.
tab_history(data, viewed, selected_day) ==
    LET all_sets == SelectUser(data.sets, viewed)
        rows == history_rows(all_sets)
    IN  IF all_sets = <<>>
        THEN [info |-> "No sets logged yet for this user."]
        ELSE IF rows = <<>>
        THEN [info |-> "No muscle data found for this user's sets."]
        ELSE [info |-> "",
              week_start |-> week_start_of(selected_day),
              week_sum |-> df_week_sum(rows, selected_day)]

\* What a run of the script past the gate shows: the viewed identity, the
\* readiness of the Dashboard tab, the recent sets with the rows that can be
\* deleted, and the History tab.
main_view(USER_ID, users, data, choice, days_ahead, selected_day, now) ==
    LET viewed == view_user_id(USER_ID, users, choice)
    IN  [view_user_id |-> viewed,
         readiness |-> readiness_shown(data, viewed, days_ahead, now),
         recent |-> recent_sets(data, viewed),
         options |-> delete_options(recent_sets(data, viewed)),
         history |-> tab_history(data, viewed, selected_day)]

\* A run with "Add set" pressed: the set is logged, then the view rendered
\* (the slider at 0 and the History tab at today's week).
DashAddSet(choice, selected_ex_id, reps, weight, rir_input, ts) ==
    /\ screen = "main"
    /\ LET USER_ID == session.user_id[1]
           viewed == view_user_id(USER_ID, _load_users, choice)
           data == add_set(_load_data, USER_ID, viewed, selected_ex_id,
                           reps, weight, rir_input, ts, clock)
       IN  /\ data_file' = data
           /\ last' = [op |-> "add_set", USER_ID |-> USER_ID, choice |-> choice,
                       days_ahead |-> 0, selected_day |-> date_isoformat(clock),
                       before |-> data_file,
                       view |-> main_view(USER_ID, _load_users, data, choice, 0,
                                          date_isoformat(clock), clock)]
    /\ round_trip' = NoTrip
    /\ UNCHANGED <<clock, latest_daily, authVars, clientVars>>

\* A run after another widget of the main view changed: the admin's
\* selector, the days-ahead slider or the date picked in the History tab.
DashView(choice, days_ahead, selected_day) ==
    /\ screen = "main"
    /\ LET USER_ID == session.user_id[1]
       IN  last' = [op |-> "main_view", USER_ID |-> USER_ID, choice |-> choice,
                    days_ahead |-> days_ahead, selected_day |-> selected_day,
                    before |-> data_file,
                    view |-> main_view(USER_ID, _load_users, _load_data, choice,
                                       days_ahead, selected_day, clock)]
    /\ UNCHANGED <<storeVars, authVars, clientVars>>

DashCreateAccount(username, password, password2) ==
    /\ screen = "login"
    /\ \E salt \in Salts :
        LET r == login_screen_create_account(_load_users, username, password,
                                             password2, salt, clock)
        IN  /\ users_file' = r.users
            /\ created' = IF r.ok THEN Remember(username, password) ELSE created
            /\ last' = [op |-> "create_account", username |-> username,
                        password |-> password, password2 |-> password2,
                        ok |-> r.ok, msg |-> r.msg, before |-> users_file]
    /\ screen' = auth_gate(session)
    /\ UNCHANGED <<storeVars, session, verified, clientVars>>

DashLogIn(username, password) ==
    /\ screen = "login"
    /\ LET r == login_screen_log_in(session, _load_users, username, password)
       IN  /\ session' = r.session_state
           /\ screen' = auth_gate(r.session_state)
           /\ last' = [op |-> "log_in", username |-> username,
                       password |-> password, ok |-> r.ok, msg |-> r.msg]
    /\ verified' = IF verify_user(_load_users, username, password)
                   THEN verified \cup {strip(username)}
                   ELSE verified
    /\ UNCHANGED <<storeVars, users_file, created, clientVars>>

DashLogOut ==
    /\ screen = "main"
    /\ session' = log_out(session)
    /\ screen' = auth_gate(log_out(session))
    /\ last' = [op |-> "log_out"]
    /\ UNCHANGED <<storeVars, users_file, created, verified, clientVars>>

(***************************************************************************)
(* app_cli.py: the text-menu client.  What is typed at a prompt is a text: *)
(* the sequence of its characters, with an exercise id typed as one piece. *)
(***************************************************************************)
\* The fixed user of the text-menu client.
USER_ID == "Ahmed"

DigitValue ==
    ("0" :> 0) @@ ("1" :> 1) @@ ("2" :> 2) @@ ("3" :> 3) @@ ("4" :> 4) @@
    ("5" :> 5) @@ ("6" :> 6) @@ ("7" :> 7) @@ ("8" :> 8) @@ ("9" :> 9)

\* Whether a text is one decimal digit or more, and nothing else.
IsDigits(text) ==
    text # <<>> /\ \A i \in DOMAIN text : text[i] \in DOMAIN DigitValue

\* The number a text of decimal digits stands for.
RECURSIVE DigitsValue(_)
DigitsValue(text) ==
    IF text = <<>> THEN 0
    ELSE 10 * DigitsValue(SubSeq(text, 1, Len(text) - 1))
         + DigitValue[text[Len(text)]]

\* A text without its sign, and 1 or -1 for the sign.
Unsigned(text) ==
    IF text # <<>> /\ text[1] \in {"+", "-"} THEN Tail(text) ELSE text

SignOf(text) == IF text # <<>> /\ text[1] = "-" THEN -1 ELSE 1

\* int(text): None for a ValueError, else Some of the number: whitespace
\* around it is skipped, a sign may come first, digits follow.
int(text) ==
    LET t == strip(text)
    IN  IF IsDigits(Unsigned(t))
        THEN Some(SignOf(t) * DigitsValue(Unsigned(t)))
        ELSE None

\* float(text): None for a ValueError, else Some of the number in tenths,
\* of which the first decimal is kept: whitespace around it is skipped, a
\* sign may come first, then digits with at most one point among them
\* (exponents, "inf" and "nan" are left out).
float(text) ==
    LET t == Unsigned(strip(text))
        points == {i \in DOMAIN t : t[i] = "."}
        whole == IF points = {} THEN t
                 ELSE SubSeq(t, 1, (CHOOSE i \in points : TRUE) - 1)
        decimals == IF points = {} THEN <<>>
                    ELSE SubSeq(t, (CHOOSE i \in points : TRUE) + 1, Len(t))
        digits_ok == /\ Cardinality(points) <= 1
                     /\ whole \o decimals # <<>>
                     /\ whole = <<>> \/ IsDigits(whole)
                     /\ decimals = <<>> \/ IsDigits(decimals)
    IN  IF digits_ok
        THEN Some(SignOf(strip(text))
                  * (10 * DigitsValue(whole)
                     + IF decimals = <<>> THEN 0 ELSE DigitValue[decimals[1]]))
        ELSE None

\* The client waits at the main menu.
AtMenu == [prompt |-> "menu", ex_id |-> "", reps |-> None, weight |-> None,
           sleep_hours |-> None]

\* The client waits at prompt, holding nothing of a dialogue.
At(prompt) == [AtMenu EXCEPT !.prompt = prompt]

\* show_today: the readiness of the user, the label of each muscle and the
\* class of each exercise.
show_today(data, now) ==
    LET readiness == readiness_from(data.sets, data.daily, USER_ID, now)
    IN  [readiness |-> readiness,
         labels |-> [m \in MuscleSet |-> classify_muscle(readiness[m])],
         buckets |-> [ex_id \in DOMAIN EXERCISES |->
                         classify_exercise(ex_id, readiness)]]

\* What the client was asked and what of data.json it found, for the step
\* that answers the prompt.
Answered(answer) ==
    [op |-> "input", prompt |-> cli.prompt, answer |-> answer,
     held |-> cli, before |-> data_file]

\* main as it would be if any answer but 1, 2 and 3 ended the program.
CliMenu_else_exits(answer) ==
    /\ cli.prompt = "menu"
    /\ LET choice == strip(answer)
       IN  /\ cli' = IF choice = <<"1">> THEN At("exercise")
                     ELSE IF choice = <<"2">> THEN At("sleep")
                     ELSE IF choice = <<"3">> THEN At("menu")
                     ELSE At("exit")
           /\ last' = IF choice = <<"3">>
                      THEN [op |-> "show_today", prompt |-> cli.prompt,
                            answer |-> answer, held |-> cli, before |-> data_file,
                            shown |-> show_today(_load_data, clock)]
                      ELSE Answered(answer)
    /\ UNCHANGED <<storeVars, authVars, writers>>

\* main: the menu is answered.  Option 3 shows today's readiness at once.
CliMenu(answer) ==
    /\ cli.prompt = "menu"
    /\ LET choice == strip(answer)
       IN  /\ cli' = IF choice = <<"1">> THEN At("exercise")
                     ELSE IF choice = <<"2">> THEN At("sleep")
                     ELSE IF choice = <<"4">> THEN At("exit")
                     ELSE At("menu")
           /\ last' = IF choice = <<"3">>
                      THEN [op |-> "show_today", prompt |-> cli.prompt,
                            answer |-> answer, held |-> cli, before |-> data_file,
                            shown |-> show_today(_load_data, clock)]
                      ELSE Answered(answer)
    /\ UNCHANGED <<storeVars, authVars, writers>>

\* choose_exercise_id: 'q' cancels, an id of the catalog is taken, anything
\* else is asked again.
CliExercise(answer) ==
    /\ cli.prompt = "exercise"
    /\ LET ex_id == strip(answer)
       IN  cli' = IF ex_id \in {<<"q">>, <<"Q">>} THEN At("menu")
                  ELSE IF Len(ex_id) = 1 /\ ex_id[1] \in DOMAIN EXERCISES
                  THEN [At("reps") EXCEPT !.ex_id = ex_id[1]]
                  ELSE At("exercise")
    /\ last' = Answered(answer)
    /\ UNCHANGED <<storeVars, authVars, writers>>

\* log_workout_sets: the reps prompt.
CliReps(answer) ==
    /\ cli.prompt = "reps"
    /\ LET reps == int(answer)
       IN  cli' = IF reps = None THEN [At("reps") EXCEPT !.ex_id = cli.ex_id]
                  ELSE IF reps[1] = 0 THEN At("menu")
                  ELSE [At("weight") EXCEPT !.ex_id = cli.ex_id, !.reps = reps]
    /\ last' = Answered(answer)
    /\ UNCHANGED <<storeVars, authVars, writers>>

\* log_workout_sets: the weight prompt; after a ValueError the loop starts
\* over, at the reps prompt.
CliWeight(answer) ==
    /\ cli.prompt = "weight"
    /\ LET weight == float(answer)
       IN  cli' = IF weight = None THEN [At("reps") EXCEPT !.ex_id = cli.ex_id]
                  ELSE [cli EXCEPT !.prompt = "rir", !.weight = weight]
    /\ last' = Answered(answer)
    /\ UNCHANGED <<storeVars, authVars, writers>>

\* log_workout_sets: the RIR prompt; the set is logged and the loop starts
\* over.
CliRir(answer) ==
    /\ cli.prompt = "rir"
    /\ LET rir_input == strip(answer)
           rir == IF rir_input = <<>> THEN None ELSE int(rir_input)
       IN  data_file' = log_set(_load_data, USER_ID, cli.ex_id, cli.reps[1],
                                cli.weight[1], rir, None, clock)
    /\ cli' = [At("reps") EXCEPT !.ex_id = cli.ex_id]
    /\ last' = Answered(answer)
    /\ round_trip' = NoTrip
    /\ UNCHANGED <<clock, latest_daily, authVars, writers>>

\* log_today_recovery: the sleep prompt.
CliSleep(answer) ==
    /\ cli.prompt = "sleep"
    /\ LET sleep_input == strip(answer)
       IN  cli' = [At("steps") EXCEPT !.sleep_hours =
                      IF sleep_input = <<>> THEN None ELSE float(sleep_input)]
    /\ last' = Answered(answer)
    /\ UNCHANGED <<storeVars, authVars, writers>>

\* log_today_recovery: the steps prompt; the entry is saved.
CliSteps(answer) ==
    /\ cli.prompt = "steps"
    /\ LET steps_input == strip(answer)
           steps == IF steps_input = <<>> THEN None ELSE int(steps_input)
       IN  /\ data_file' = log_daily_recovery(_load_data, USER_ID,
                                              cli.sleep_hours, steps, clock)
           /\ latest_daily' = [latest_daily EXCEPT ![USER_ID] =
                                  Some([date |-> date_isoformat(clock),
                                        sleep_hours |-> cli.sleep_hours,
                                        steps |-> steps,
                                        again |-> /\ latest_daily[USER_ID] # None
                                                  /\ latest_daily[USER_ID][1].date
                                                       = date_isoformat(clock)])]
    /\ cli' = At("menu")
    /\ last' = Answered(answer)
    /\ round_trip' = NoTrip
    /\ UNCHANGED <<clock, authVars, writers>>

(***************************************************************************)
(* Two log_set calls at a time, by two clients on one data.json: a call    *)
(* loads the file and appends to what it loaded, and later saves it; the   *)
(* other call may load and save in between.                                *)
(***************************************************************************)
Writers == {1, 2}

\* No call under way.
Idle == [pc |-> "idle"]

\* _save_data as it would be if it added the new set to what the file holds
\* at the time of the write.
_save_data_merging(file, data) ==
    [file EXCEPT !.sets = Append(@, data.sets[Len(data.sets)])]

\* _save_data: the contents of data.json after write_text, whatever the
\* file held.
_save_data(file, data) == data

\* log_set up to its call of _save_data: the timestamp is settled, the file
\* loaded and the set appended in memory.  overlapped: the other call had
\* loaded and not yet saved.
WriterLoad(w, user_id, exercise_id, reps, weight, rir, timestamp) ==
    /\ writers[w].pc = "idle"
    /\ writers' = [writers EXCEPT ![w] =
           [pc |-> "loaded",
            data |-> log_set(_load_data, user_id, exercise_id, reps, weight,
                             rir, timestamp, clock),
            overlapped |-> \E v \in Writers \ {w} : writers[v].pc = "loaded",
            rank |-> 0]]
    /\ UNCHANGED <<storeVars, last, authVars, cli>>

\* log_set from its call of _save_data: the file is rewritten and the call
\* returns.  rank: 1 for the call that returned first, 2 for the other.
WriterSave(w) ==
    /\ writers[w].pc = "loaded"
    /\ data_file' = _save_data(data_file, writers[w].data)
    /\ writers' = [writers EXCEPT ![w] =
           [@ EXCEPT !.pc = "done",
                     !.rank = 1 + Cardinality({v \in Writers :
                                                  writers[v].pc = "done"})]]
    /\ round_trip' = NoTrip
    /\ UNCHANGED <<clock, last, latest_daily, authVars, cli>>

(***************************************************************************)
(* The persistence layer as a state machine: one action per call, the      *)
(* calls taken one after the other.                                        *)
(***************************************************************************)
\* At most this many records in the "sets" collection.
MaxSets == 2

\* The clock stops here.
MaxClock == 2

USERS == {"Ahmed", "dyar"}

\* The instants a caller passes as an explicit timestamp.
Instants == 0 .. MaxClock

TimestampTexts == {isoformat(t) : t \in Instants}

LogSet(user_id, exercise_id, reps, weight, rir, timestamp) ==
    LET text == isoformat(IF timestamp = None THEN clock ELSE timestamp[1])
    IN  /\ data_file' = log_set(_load_data, user_id, exercise_id, reps, weight,
                                rir, timestamp, clock)
        /\ last' = [op |-> "log_set", user_id |-> user_id,
                    exercise_id |-> exercise_id, reps |-> reps,
                    weight |-> weight, rir |-> rir, timestamp |-> text,
                    before |-> data_file]
        /\ round_trip' = [stage |-> 1, user_id |-> user_id, timestamp |-> text,
                          input |-> [user_id |-> user_id,
                                     exercise_id |-> exercise_id,
                                     reps |-> reps, weight |-> weight,
                                     rir |-> rir, timestamp |-> text]]
        /\ UNCHANGED <<clock, latest_daily, authVars, clientVars>>

DeleteSetByTimestamp(user_id, timestamp) ==
    LET r == delete_set_by_timestamp(_load_data, user_id, timestamp)
        follows == /\ round_trip.stage \in {1, 2}
                   /\ round_trip.user_id = user_id
                   /\ round_trip.timestamp = timestamp
    IN  /\ data_file' = r.data
        /\ last' = [op |-> "delete_set_by_timestamp", user_id |-> user_id,
                    timestamp |-> timestamp, ret |-> r.ret,
                    before |-> data_file]
        /\ round_trip' = IF follows
                         THEN [round_trip EXCEPT !.stage = @ + 1]
                         ELSE NoTrip
        /\ UNCHANGED <<clock, latest_daily, authVars, clientVars>>

LogDailyRecovery(user_id, sleep_hours, steps) ==
    /\ data_file' = log_daily_recovery(_load_data, user_id, sleep_hours, steps,
                                       clock)
    /\ last' = [op |-> "log_daily_recovery", user_id |-> user_id,
                sleep_hours |-> sleep_hours, steps |-> steps]
    /\ latest_daily' = [latest_daily EXCEPT ![user_id] =
                            Some([date |-> date_isoformat(clock),
                                  sleep_hours |-> sleep_hours,
                                  steps |-> steps,
                                  \* an earlier call of the user had this date
                                  again |-> /\ latest_daily[user_id] # None
                                            /\ latest_daily[user_id][1].date
                                                 = date_isoformat(clock)])]
    /\ round_trip' = NoTrip
    /\ UNCHANGED <<clock, authVars, clientVars>>

\* compute_current_muscle_readiness(user_id, as_of): reads data.json, writes
\* nothing.
compute_current_muscle_readiness(user_id, as_of) ==
    readiness_from(get_all_sets, get_all_daily, user_id,
                   IF as_of = None THEN clock ELSE as_of[1])

ComputeReadiness(user_id, as_of) ==
    /\ last' = [op |-> "compute_current_muscle_readiness", user_id |-> user_id,
                as_of |-> IF as_of = None THEN clock ELSE as_of[1],
                ret |-> compute_current_muscle_readiness(user_id, as_of)]
    /\ round_trip' = NoTrip
    /\ UNCHANGED <<data_file, clock, latest_daily, authVars, clientVars>>

\* compute_muscle_readiness_days_ahead as it would be if it looked back.
compute_muscle_readiness_days_back(user_id, days_ahead) ==
    LET as_of == clock - days_ahead
    IN  compute_current_muscle_readiness(user_id, Some(as_of))

\* compute_muscle_readiness_days_ahead(user_id, days_ahead): days_ahead in
\* ticks.
compute_muscle_readiness_days_ahead(user_id, days_ahead) ==
    LET as_of == clock + days_ahead
    IN  compute_current_muscle_readiness(user_id, Some(as_of))

\* The Dashboard's readings of one run: the readiness of right now, the
\* readiness days_ahead from now, and the recovery curve up to there (one
\* call for each half day).
ComputeDaysAhead(user_id, days_ahead) ==
    /\ last' = [op |-> "compute_muscle_readiness_days_ahead",
                user_id |-> user_id, days_ahead |-> days_ahead, now |-> clock,
                current |-> compute_current_muscle_readiness(user_id, None),
                ret |-> compute_muscle_readiness_days_ahead(user_id, days_ahead),
                curve |-> [d \in 0 .. days_ahead |->
                             compute_muscle_readiness_days_ahead(user_id, d)]]
    /\ round_trip' = NoTrip
    /\ UNCHANGED <<data_file, clock, latest_daily, authVars, clientVars>>

\* Time passes between two calls.
Tick ==
    /\ clock < MaxClock
    /\ clock' = clock + 1
    /\ UNCHANGED <<data_file, last, round_trip, latest_daily, authVars, clientVars>>

Init ==
    /\ data_file = EmptyData
    /\ clock = 0
    /\ last = NoCall
    /\ round_trip = NoTrip
    /\ latest_daily = [u \in USERS |-> None]
    /\ users_file = NoUsers
    /\ created = <<>>
    /\ session = NoSession
    /\ screen = "login"
    /\ verified = {}
    /\ cli = AtMenu
    /\ writers = [w \in Writers |-> Idle]

\* The "sets" collection: appends and deletions, by two users, with the
\* timestamp defaulted or given.
Next ==
    \/ \E u \in USERS, rir \in {None, Some(2)},
          ts \in {None} \cup {Some(t) : t \in Instants} :
           /\ Len(data_file.sets) < MaxSets
           /\ LogSet(u, "bench_press", 8, 80, rir, ts)
    \/ \E u \in USERS, ts \in TimestampTexts : DeleteSetByTimestamp(u, ts)
    \/ Tick

Spec == Init /\ [][Next]_vars

\* The "daily" collection: sleep hours in tenths, steps as counted.
NextDaily ==
    \/ \E u \in USERS, sleep \in {None, Some(50), Some(70)},
          steps \in {None, Some(8000)} :
           LogDailyRecovery(u, sleep, steps)
    \/ Tick

SpecDaily == Init /\ [][NextDaily]_vars

\* At most this many records in the "sets" collection when readiness is
\* computed.
MaxLogged == 3

\* The sets logged before readiness is computed: <<user, RIR, timestamp>>,
\* all of the deadlift (SFR 2.0, the heaviest of the catalog).  The first user
\* logs maximal and easy sets now and a maximal set dated one day ahead; the
\* second user logs maximal sets now.
Trainings ==
    {<<"Ahmed", Some(0), None>>,
     <<"Ahmed", Some(3), None>>,
     <<"Ahmed", Some(0), Some(TicksPerDay)>>,
     <<"dyar", Some(0), None>>}

\* The reference instants: now, half a day on, and around the horizon.
AsOfs ==
    {None, Some(1), Some(RECOVERY_HORIZON_DAYS * TicksPerDay - 1),
     Some(RECOVERY_HORIZON_DAYS * TicksPerDay)}

\* The recovery engine over the store: sets and daily entries are logged (the
\* clock stands at 0, time passes in the reference instant), readiness is
\* computed.  A computation writes nothing, so one that follows another
\* reaches the states it reaches from the state before: it is left out.
NextReadiness ==
    \/ \E t \in Trainings :
           /\ Len(data_file.sets) < MaxLogged
           /\ LogSet(t[1], "deadlift", 5, 140, t[2], t[3])
    \/ \E u \in USERS : LogDailyRecovery(u, Some(50), Some(2000))
    \/ \E u \in USERS, as_of \in AsOfs :
           /\ last.op # "compute_current_muscle_readiness"
           /\ ComputeReadiness(u, as_of)

SpecReadiness == Init /\ [][NextReadiness]_vars

\* The account store: accounts are created and credentials verified.
NextAuth ==
    \/ \E u \in Usernames, pw \in Passwords : CreateUser(u, pw)
    \/ \E u \in Usernames, pw \in Passwords : VerifyUser(u, pw)

SpecAuth == Init /\ [][NextAuth]_vars

\* One session of the dashboard, from its first run: accounts are created
\* and users log in and out at the login screen and the sidebar.  The
\* passwords typed twice agree, or differ.
NextDash ==
    \/ \E u \in Usernames, pw \in Passwords, pw2 \in Passwords :
           DashCreateAccount(u, pw, pw2)
    \/ \E u \in Usernames, pw \in Passwords : DashLogIn(u, pw)
    \/ DashLogOut

SpecDash == Init /\ [][NextDash]_vars

\* The sets logged through the dashboard in one exploration.
MaxAdded == 2

\* The accounts of the main view: the admin and another user, one password.
Members == {<<"A", "h", "m", "e", "d">>, <<"a", "l">>}

MemberPassword == <<"s", "e", "c", "r", "e", "t">>

\* What the admin's selector is set to: untouched, or one of its options.
Choices == {None, Some(1), Some(2)}

\* One session of the dashboard with its main view: the users sign up, log
\* in and out, add sets and look at the data.
NextMain ==
    \/ \E u \in Members : DashCreateAccount(u, MemberPassword, MemberPassword)
    \/ \E u \in Members : DashLogIn(u, MemberPassword)
    \/ DashLogOut
    \/ \E choice \in Choices :
           /\ Len(data_file.sets) < MaxAdded
           /\ DashAddSet(choice, "bench_press", 8, 600, 2, None)
    \/ \E choice \in Choices, days_ahead \in {0, 1} :
           DashView(choice, days_ahead, date_isoformat(clock))

SpecMain == Init /\ [][NextMain]_vars

\* The sets typed into the text-menu client in one exploration.
MaxTyped == 2

\* What is typed at the menu and at the prompts.
MenuAnswers == {<<"1">>, <<" ", "2">>, <<"3">>, <<"4">>, <<"9">>, <<>>}

ExerciseAnswers ==
    {<<" ", "bench_press", " ">>, <<"q">>, <<"Q">>, <<"b", "o", "g", "u", "s">>}

RepsAnswers == {<<"8">>, <<"0">>, <<"-", "5">>, <<"a", "b", "c">>}

WeightAnswers == {<<"7", "2", ".", "5">>, <<"a", "b", "c">>}

RirAnswers == {<<>>, <<"2">>, <<"7">>, <<"x">>}

SleepAnswers == {<<"7", ".", "5">>, <<>>, <<"a", "b", "c">>}

StepsAnswers == {<<"9", "0", "0", "0">>, <<>>}

\* The text-menu client, one answer at a time.
NextCli ==
    \/ \E answer \in MenuAnswers : CliMenu(answer)
    \/ \E answer \in ExerciseAnswers : CliExercise(answer)
    \/ \E answer \in RepsAnswers : CliReps(answer)
    \/ \E answer \in WeightAnswers : CliWeight(answer)
    \/ \E answer \in RirAnswers :
           /\ Len(data_file.sets) < MaxTyped
           /\ CliRir(answer)
    \/ \E answer \in SleepAnswers : CliSleep(answer)
    \/ \E answer \in StepsAnswers : CliSteps(answer)

SpecCli == Init /\ [][NextCli]_vars

\* The recovery engine over a store with sets of an exercise the catalog
\* lacks: sets of a catalog exercise and of "zercher_squat" are logged,
\* readiness is computed of now and of half a day on.
NextCatalog ==
    \/ \E u \in USERS, exercise_id \in {"deadlift", "zercher_squat"} :
           /\ Len(data_file.sets) < MaxLogged
           /\ LogSet(u, exercise_id, 5, 140, Some(0), None)
    \/ \E u \in USERS, as_of \in {None, Some(1)} :
           /\ last.op # "compute_current_muscle_readiness"
           /\ ComputeReadiness(u, as_of)

SpecCatalog == Init /\ [][NextCatalog]_vars

\* classify_muscle is called.
ClassifyMuscle(readiness) ==
    /\ last' = [op |-> "classify_muscle", readiness |-> readiness,
                ret |-> classify_muscle(readiness)]
    /\ UNCHANGED <<storeVars, authVars, clientVars>>

\* classify_exercise is called.
ClassifyExercise(exercise_id, muscle_readiness) ==
    /\ last' = [op |-> "classify_exercise", exercise_id |-> exercise_id,
                muscle_readiness |-> muscle_readiness,
                ret |-> classify_exercise(exercise_id, muscle_readiness)]
    /\ UNCHANGED <<storeVars, authVars, clientVars>>

\* The readiness values classified: every whole per cent, and the values
\* next to the bounds of the bands and next to 0.
ReadinessValues ==
    {Percent(n) : n \in 0..100}
    \cup {Percent(n) - 1 : n \in {40, 60, 80, 95}}
    \cup {Percent(n) + 1 : n \in {0, 40, 60, 80, 95}}

\* The values of a muscle in a readiness map, around the four bars of
\* classify_exercise.
Levels ==
    {Percent(49), Percent(50), Percent(59), Percent(60) - 1, Percent(60),
     Percent(65), Percent(70), Percent(80) - 1, Percent(80), Percent(85)}

\* The maps of some of the muscles to values.
Maps(muscles, values) ==
    UNION {[present -> values] : present \in SUBSET muscles}

\* The readiness maps classified: for the bench press (one primary and two
\* secondary muscles) every map of its muscles to Levels, for the deadlift
\* (three and three) the primary muscles at 70 or 85 and the secondary ones
\* at 65; a muscle may be missing from the map.
ClassifyInputs ==
    {<<"bench_press", mr>> :
        mr \in Maps({"chest", "front_delts", "triceps"}, Levels)}
    \cup
    {<<"deadlift", p @@ s>> :
        p \in Maps({"hamstrings", "glutes", "lower_back"}, {Percent(70), Percent(85)}),
        s \in Maps({"traps", "forearm_flexors", "brachioradialis"}, {Percent(65)})}

\* The two classifications, each input classified from the initial state (a
\* classification changes nothing a later one reads).
NextClassify ==
    \/ \E readiness \in ReadinessValues :
           /\ last.op = "none"
           /\ ClassifyMuscle(readiness)
    \/ \E input \in ClassifyInputs :
           /\ last.op = "none"
           /\ ClassifyExercise(input[1], input[2])

SpecClassify == Init /\ [][NextClassify]_vars

\* The custom times of the sets of the History tab: none (now, a Thursday),
\* the Sunday after, the Monday after that (at noon) and the Sunday a week
\* later.
SetTimes ==
    {None, Some(3 * TicksPerDay), Some(4 * TicksPerDay + 1),
     Some(10 * TicksPerDay)}

\* The dates picked in the History tab: a Thursday, a Sunday, the Monday
\* after it and the Sunday after that.
PickedDays == {0, 3, 4, 10}

\* One session of a user who adds sets at custom times and picks dates in
\* the History tab.
NextHistory ==
    \/ DashCreateAccount(<<"a", "l">>, MemberPassword, MemberPassword)
    \/ DashLogIn(<<"a", "l">>, MemberPassword)
    \/ \E ts \in SetTimes :
           /\ Len(data_file.sets) < MaxAdded
           /\ DashAddSet(None, "bench_press", 8, 600, 2, ts)
    \/ \E selected_day \in PickedDays : DashView(None, 0, selected_day)

SpecHistory == Init /\ [][NextHistory]_vars

\* Two clients log one set each, at any pace, while time passes.
NextRace ==
    \/ \E w \in Writers, u \in USERS, rir \in {None, Some(2)},
          timestamp \in {None, Some(1)} :
           WriterLoad(w, u, "bench_press", 8, 80, rir, timestamp)
    \/ \E w \in Writers : WriterSave(w)
    \/ Tick

SpecRace == Init /\ [][NextRace]_vars

\* The sets logged before a projection: <<user, RIR, timestamp>>, all of the
\* deadlift.  The first user logs maximal sets now and a maximal set dated
\* at the second day; the second user logs maximal sets now.
ProjectedTrainings ==
    {<<"Ahmed", Some(0), None>>,
     <<"Ahmed", Some(0), Some(TicksPerDay)>>,
     <<"dyar", Some(0), None>>}

\* The slider's positions, in ticks: half a day and one week (the curve up
\* to a position has every half day before it, the horizon's included).
DaysAheadValues == {1, 7 * TicksPerDay}

\* Projection: sets and a daily entry are logged as time passes, readiness
\* is read now and days ahead.  A reading writes nothing, so the steps that
\* follow it are those that follow the state before: time does not pass
\* right after one.
NextProjection ==
    \/ \E t \in ProjectedTrainings :
           /\ Len(data_file.sets) < MaxSets
           /\ LogSet(t[1], "deadlift", 5, 140, t[2], t[3])
    \/ /\ data_file.daily = <<>>
       /\ LogDailyRecovery("Ahmed", Some(50), Some(2000))
    \/ \E u \in USERS, d \in DaysAheadValues :
           /\ last.op # "compute_muscle_readiness_days_ahead"
           /\ ComputeDaysAhead(u, d)
    \/ /\ last.op # "compute_muscle_readiness_days_ahead"
       /\ Tick

SpecProjection == Init /\ [][NextProjection]_vars

(***************************************************************************)
(* The persistence layer: properties.                                      *)
(***************************************************************************)
\* C1: the "daily" collection holds at most one entry per (user_id, date),
\* and for every user the entry of the date of the user's latest
\* log_daily_recovery call exists once and carries that call's sleep_hours
\* and steps.
C1_OneDailyEntryPerUserAndDate ==
    LET daily == get_all_daily
    IN  /\ \A i, j \in DOMAIN daily :
              (daily[i].user_id = daily[j].user_id /\ daily[i].date = daily[j].date)
                  => i = j
        /\ \A u \in USERS :
              latest_daily[u] # None =>
                  LET call == latest_daily[u][1]
                      hits == {i \in DOMAIN daily :
                                  daily[i].user_id = u /\ daily[i].date = call.date}
                  IN  /\ Cardinality(hits) = 1
                      /\ \A i \in hits :
                            /\ daily[i].sleep_hours = call.sleep_hours
                            /\ daily[i].steps = call.steps

\* A user has logged a date a second time, with other values than the entry
\* it replaced would have kept, while both users have entries on two dates.
C1_Witness ==
    /\ last.op = "log_daily_recovery"
    /\ latest_daily[last.user_id][1].again
    /\ last.sleep_hours = Some(50)
    /\ last.steps = None
    /\ Len(get_all_daily) = 4

\* The records of a collection that match a log_set input in all six fields.
CountMatching(records, input) ==
    Cardinality({i \in DOMAIN records : records[i] = input})

\* The delete that follows a log_set of the same user and timestamp returns
\* True and leaves no record of the input listed; the identical delete after
\* it returns False and leaves data.json as it was.
RoundTripDeletes ==
    /\ round_trip.stage = 2 =>
          /\ last.ret = TRUE
          /\ CountMatching(get_all_sets, round_trip.input) = 0
    /\ round_trip.stage = 3 =>
          /\ last.ret = FALSE
          /\ data_file = last.before

\* C2 as claimed: after log_set exactly one listed record matches the input
\* in its six fields; the delete by its user and timestamp returns True and
\* the record is gone; a second identical delete returns False and changes
\* nothing.
C2_RoundTripExactlyOne ==
    /\ last.op = "log_set" => CountMatching(get_all_sets, round_trip.input) = 1
    /\ RoundTripDeletes

\* C2, amended: after log_set the listed records matching the input are one
\* more than before the call (exactly one when the store held no identical
\* record); the deletes are as claimed.
C2_RoundTripOneMore ==
    /\ last.op = "log_set" =>
          CountMatching(get_all_sets, round_trip.input)
              = CountMatching(last.before.sets, round_trip.input) + 1
    /\ RoundTripDeletes

\* A log_set, its delete and the repeated delete have all completed, on a
\* store that holds another record.
C2_Witness ==
    /\ round_trip.stage = 3
    /\ Len(get_all_sets) >= 1

\* The records without the first one of a user and timestamp.
RemoveFirstHit(records, user_id, timestamp) ==
    LET hits == {i \in DOMAIN records :
                    /\ records[i].user_id = user_id
                    /\ records[i].timestamp = timestamp}
    IN  IF hits = {} THEN records
        ELSE LET k == CHOOSE i \in hits : \A j \in hits : i <= j
             IN  SubSeq(records, 1, k - 1) \o SubSeq(records, k + 1, Len(records))

\* C3: one delete_set_by_timestamp call removes the first record of the user
\* and timestamp and nothing else: the collection shrinks by at most one,
\* all other records stay, in order, and the call returns True exactly when
\* a record went.
C3_DeleteRemovesOneRecord ==
    last.op = "delete_set_by_timestamp" =>
        LET before == last.before.sets
            after == get_all_sets
        IN  /\ Len(after) >= Len(before) - 1
            /\ after = RemoveFirstHit(before, last.user_id, last.timestamp)
            /\ last.ret = (Len(after) < Len(before))

(***************************************************************************)
(* The recovery engine: properties.                                        *)
(***************************************************************************)
Computed == last.op = "compute_current_muscle_readiness"

\* C4: whatever sets and daily entries are stored and whatever the reference
\* instant, the map compute_current_muscle_readiness returns has every one of
\* the 19 tracked muscles and every value in it lies in [0, 100].
C4_ReadinessClamped ==
    Computed =>
        /\ DOMAIN last.ret = MuscleSet
        /\ Cardinality(DOMAIN last.ret) = 19
        /\ \A m \in DOMAIN last.ret :
              0 <= last.ret[m] /\ last.ret[m] <= 100 * RAW_ONE

\* Readiness was computed for a user with three sets at one instant: some
\* muscle is at 0 (its fatigue was over 100 %), some strictly between.
C4_Witness ==
    /\ Computed
    /\ \E ts \in TimestampTexts :
          Cardinality({i \in DOMAIN get_all_sets :
                          /\ get_all_sets[i].user_id = last.user_id
                          /\ get_all_sets[i].timestamp = ts}) = 3
    /\ \E m \in MuscleSet : last.ret[m] = 0
    /\ \E m \in MuscleSet : 0 < last.ret[m] /\ last.ret[m] < 100 * RAW_ONE

\* A set lies outside the window of a reference instant: later than it, or
\* 5.0 days or more before it.
OutOfWindow(s, as_of) ==
    LET ticks_since == as_of - fromisoformat(s.timestamp)
    IN  \/ ticks_since < 0
        \/ ticks_since >= 5 * TicksPerDay

\* A set stresses a muscle: it is a primary or secondary muscle of the set's
\* exercise.
Touches(s, m) ==
    /\ s.exercise_id \in DOMAIN EXERCISES
    /\ \/ \E i \in DOMAIN EXERCISES[s.exercise_id].primary :
              EXERCISES[s.exercise_id].primary[i] = m
       \/ \E j \in DOMAIN EXERCISES[s.exercise_id].secondary :
              EXERCISES[s.exercise_id].secondary[j] = m

RemoveAt(records, i) ==
    SubSeq(records, 1, i - 1) \o SubSeq(records, i + 1, Len(records))

\* C5: a stored set outside the window (later than the reference instant, or
\* 5.0 days or more before it) adds nothing: the readiness map is the one
\* computed without the set, and a muscle stressed only by such sets is at
\* exactly 100.
C5_OnlySetsInWindowCount ==
    Computed =>
        /\ \A i \in DOMAIN get_all_sets :
              OutOfWindow(get_all_sets[i], last.as_of) =>
                  last.ret = readiness_from(RemoveAt(get_all_sets, i), get_all_daily,
                                            last.user_id, last.as_of)
        /\ \A m \in MuscleSet :
              (\A i \in DOMAIN get_all_sets :
                  (get_all_sets[i].user_id = last.user_id /\ Touches(get_all_sets[i], m))
                      => OutOfWindow(get_all_sets[i], last.as_of))
                  => last.ret[m] = 100 * RAW_ONE

\* Readiness was computed for a user with a set exactly 5.0 days before the
\* reference instant and a set that still shows.
C5_Witness ==
    /\ Computed
    /\ \E i \in DOMAIN get_all_sets :
          /\ get_all_sets[i].user_id = last.user_id
          /\ last.as_of - fromisoformat(get_all_sets[i].timestamp) = 5 * TicksPerDay
    /\ \E m \in MuscleSet : last.ret[m] < 100 * RAW_ONE

\* The integer RIR values compared.
RirRange == -1 .. 6

\* The effort multipliers of the claim, in tenths.
EffortTable(rir) ==
    IF rir <= 0 THEN 12
    ELSE IF rir = 1 THEN 10
    ELSE IF rir = 2 THEN 8
    ELSE IF rir = 3 THEN 6
    ELSE 4

\* C6: harder sets never leave a muscle more ready.  When the user has one
\* stored set, of integer RIR a, every muscle's readiness is at most what it
\* is with the same set logged with an RIR b >= a, and at least what it is
\* with an RIR b <= a; the effort multipliers are 1.2 for RIR <= 0, 1.0, 0.8,
\* 0.6 for RIR 1, 2, 3 and 0.4 for RIR >= 4.
C6_HarderSetsNeverMoreReady ==
    /\ \A b \in RirRange : effort_multiplier_from_rir(Some(b)) = EffortTable(b)
    /\ Computed =>
          LET mine == {i \in DOMAIN get_all_sets :
                          get_all_sets[i].user_id = last.user_id}
          IN  \A i \in mine :
                (mine = {i} /\ get_all_sets[i].rir # None) =>
                    \A b \in RirRange :
                        LET a == get_all_sets[i].rir[1]
                            other == readiness_from(
                                         [get_all_sets EXCEPT ![i].rir = Some(b)],
                                         get_all_daily, last.user_id, last.as_of)
                        IN  \A m \in MuscleSet :
                              /\ a <= b => last.ret[m] <= other[m]
                              /\ b <= a => other[m] <= last.ret[m]

\* Readiness was computed for a user whose one set, of RIR 3, shows, on a
\* date that has a daily entry of the user.
C6_Witness ==
    /\ Computed
    /\ \E i \in DOMAIN get_all_sets :
          /\ \A j \in DOMAIN get_all_sets :
                get_all_sets[j].user_id = last.user_id <=> j = i
          /\ get_all_sets[i].rir = Some(3)
          /\ \E k \in DOMAIN get_all_daily :
                /\ get_all_daily[k].user_id = last.user_id
                /\ get_all_daily[k].date = get_all_sets[i].timestamp.date
    /\ \E m \in MuscleSet : last.ret[m] < 100 * RAW_ONE
(***************************************************************************)
(* The account store: properties.                                          *)
(***************************************************************************)
\* The usernames of the stored accounts.
StoredNames(users) == {users[i].username : i \in DOMAIN users}

\* C7: verify_user(u, q) returns True exactly when a create_user call for
\* the same username (compared after trimming) succeeded with the password q:
\* it accepts the password the account was created with, and refuses every
\* other password and every username that was never created.
C7_VerifyAcceptsOnlyTheCreatedPassword ==
    last.op = "verify_user" =>
        last.ret = (/\ strip(last.username) \in DOMAIN created
                    /\ created[strip(last.username)] = last.password)

\* Two accounts exist, and verify_user has accepted a username typed with
\* whitespace around it.
C7_Witness ==
    /\ last.op = "verify_user"
    /\ last.ret
    /\ last.username # strip(last.username)
    /\ Len(users_file) = 2

\* No two stored accounts have the same username, and every stored username
\* is trimmed and not empty.
UniqueTrimmedUsernames ==
    /\ \A i, j \in DOMAIN users_file :
           users_file[i].username = users_file[j].username => i = j
    /\ \A i \in DOMAIN users_file :
           /\ users_file[i].username # <<>>
           /\ strip(users_file[i].username) = users_file[i].username

\* The last call was create_user with a username that, trimmed, an account
\* already had.
DuplicateCreate ==
    /\ last.op = "create_user"
    /\ strip(last.username) \in StoredNames(last.before)

\* C8 as stated: usernames are unique, trimmed and not empty, and a
\* create_user call whose trimmed username is already stored is rejected
\* with the already-exists failure and leaves the store unchanged.
C8_DuplicateAlwaysAlreadyExists ==
    /\ UniqueTrimmedUsernames
    /\ DuplicateCreate =>
           /\ ~last.ok
           /\ last.msg = "Username already exists."
           /\ users_file = last.before

\* C8: usernames are unique, trimmed and not empty, and a create_user call
\* whose trimmed username is already stored is rejected and leaves the store
\* unchanged: with the already-exists failure when the password has at least
\* 6 characters, with the password-length failure when it is shorter.
C8_DuplicateRejected ==
    /\ UniqueTrimmedUsernames
    /\ DuplicateCreate =>
           /\ ~last.ok
           /\ users_file = last.before
           /\ last.msg = IF Len(last.password) < 6
                         THEN "Password must be at least 6 characters."
                         ELSE "Username already exists."

\* create_user was called with an acceptable password and a username that
\* differs from a stored one by surrounding whitespace only, and was rejected
\* as a duplicate.
C8_Witness ==
    /\ DuplicateCreate
    /\ last.username # strip(last.username)
    /\ Len(last.password) >= 6
    /\ last.msg = "Username already exists."

\* C9: a create_user call with a username that is empty after trimming, or
\* with a password of fewer than 6 characters, fails and leaves the store
\* unchanged, whatever the store holds; so every account was created with a
\* password of at least 6 characters.
C9_InvalidInputRejected ==
    /\ (/\ last.op = "create_user"
        /\ \/ strip(last.username) = <<>>
           \/ Len(last.password) < 6)
       => (~last.ok /\ users_file = last.before)
    /\ DOMAIN created = StoredNames(users_file)
    /\ \A n \in DOMAIN created : Len(created[n]) >= 6

\* create_user has refused a new username with a password of 5 characters
\* while the store already held an account.
C9_Witness ==
    /\ last.op = "create_user"
    /\ Len(last.password) = 5
    /\ strip(last.username) # <<>>
    /\ strip(last.username) \notin StoredNames(last.before)
    /\ last.before # NoUsers
    /\ ~last.ok

(***************************************************************************)
(* The dashboard's session gate: properties.                               *)
(***************************************************************************)
\* C10: the main view is rendered only while the session state holds
\* user_id, and that user_id is the trimmed username of a stored account
\* that verify_user accepted in this session; a refused login leaves the
\* session without user_id and on the login screen; logging out removes
\* user_id and the login screen is shown again.
C10_SessionGate ==
    /\ screen = "main" => session.user_id # None
    /\ session.user_id # None =>
           LET user_id == session.user_id[1]
           IN  /\ strip(user_id) = user_id
               /\ user_id \in StoredNames(users_file)
               /\ user_id \in verified
    /\ (last.op = "log_in" /\ ~last.ok) =>
           (session.user_id = None /\ screen = "login")
    /\ last.op = "log_out" => (session.user_id = None /\ screen = "login")

\* A user has logged in, with whitespace typed around the username, after
\* another user logged in and out in the same session.
C10_Witness ==
    /\ last.op = "log_in"
    /\ last.ok
    /\ last.username # strip(last.username)
    /\ screen = "main"
    /\ session.user_id = Some(strip(last.username))
    /\ Cardinality(verified) = 2

(***************************************************************************)
(* The dashboard's main view: properties.                                  *)
(***************************************************************************)
\* The last step was a run of the main view.
Rendered == last.op \in {"add_set", "main_view"}

\* data without the records of other users than user_id.
OwnData(data, user_id) ==
    [sets |-> SelectUser(data.sets, user_id),
     daily |-> SelectUser(data.daily, user_id)]

\* C11: in a run of a user who is not an admin the viewed identity is the
\* logged-in one, whatever the selector holds, and the readiness, the recent
\* sets, the history and the rows offered for deletion are those of a store
\* that holds the logged-in user's records only; a viewed identity other
\* than the logged-in one is seen by an admin only and is a registered
\* username.
C11_NonAdminSeesOwnDataOnly ==
    Rendered =>
        /\ last.USER_ID \notin ADMIN_USERS =>
               /\ last.view.view_user_id = last.USER_ID
               /\ last.view = main_view(last.USER_ID, users_file,
                                        OwnData(data_file, last.USER_ID), None,
                                        last.days_ahead, last.selected_day, clock)
               /\ \A i \in DOMAIN last.view.recent :
                      last.view.recent[i].user_id = last.USER_ID
               /\ \A i \in DOMAIN last.view.options :
                      last.view.options[i].user_id = last.USER_ID
        /\ last.view.view_user_id # last.USER_ID =>
               /\ last.USER_ID \in ADMIN_USERS
               /\ last.view.view_user_id \in StoredNames(users_file)

\* A user who is not an admin has looked at the main view with the selector
\* pointing at the admin, while the store held sets of the admin and of the
\* user.
C11_Witness ==
    /\ last.op = "main_view"
    /\ last.USER_ID \notin ADMIN_USERS
    /\ last.choice # None
    /\ last.choice[1] \in DOMAIN users_file
    /\ usernames_of(users_file)[last.choice[1]] \in ADMIN_USERS
    /\ last.view.recent # <<>>
    /\ \E i \in DOMAIN data_file.sets : data_file.sets[i].user_id \in ADMIN_USERS

\* C12: the set the "Add set" form appends has the logged-in identity as
\* its user_id, also when the admin views another user; the sets stored
\* before stay as they were.
C12_AddSetUsesActingIdentity ==
    last.op = "add_set" =>
        /\ Len(data_file.sets) = Len(last.before.sets) + 1
        /\ SubSeq(data_file.sets, 1, Len(last.before.sets)) = last.before.sets
        /\ data_file.sets[Len(data_file.sets)].user_id = last.USER_ID

\* The admin has added a set while viewing another user.
C12_Witness ==
    /\ last.op = "add_set"
    /\ last.USER_ID \in ADMIN_USERS
    /\ last.view.view_user_id # last.USER_ID
    /\ data_file.sets[Len(data_file.sets)].user_id = last.USER_ID

(***************************************************************************)
(* The text-menu client: properties.                                       *)
(***************************************************************************)
\* C13: every set the clients write has a repetition count that is a
\* positive integer.
C13_RepsPositive ==
    \A i \in DOMAIN data_file.sets : data_file.sets[i].reps \in Nat \ {0}

\* C14: every set the clients write has no rir or one from 0 to 5.
C14_RirInRange ==
    \A i \in DOMAIN data_file.sets :
        data_file.sets[i].rir = None \/ data_file.sets[i].rir[1] \in 0..5

\* C20: in the "Log workout sets" dialogue an answer that is not a number
\* is followed by the prompt it answered: the reps prompt after such a reps
\* answer, the weight prompt, with the reps entered kept, after such a
\* weight answer; no set is appended for the answer.
C20_RepromptsSameField ==
    /\ (last.op = "input" /\ last.prompt = "reps" /\ int(last.answer) = None) =>
           /\ cli.prompt = "reps"
           /\ data_file = last.before
    /\ (last.op = "input" /\ last.prompt = "weight" /\ float(last.answer) = None) =>
           /\ cli.prompt = "weight"
           /\ cli.reps = last.held.reps
           /\ data_file = last.before

\* The step before answered the menu with something else than 1 to 4.
UnknownOption ==
    /\ last.op = "input"
    /\ last.prompt = "menu"
    /\ strip(last.answer) \notin {<<"1">>, <<"2">>, <<"3">>, <<"4">>}

\* The step before answered the exercise prompt with the sentinel.
Cancelled ==
    /\ last.op = "input"
    /\ last.prompt = "exercise"
    /\ strip(last.answer) \in {<<"q">>, <<"Q">>}

\* C21: the program has ended only after option 4 was chosen at the menu;
\* the menu is back after option 3, after the steps answer that ends
\* option 2, after the 0 for reps and after the 'q' that end option 1, and
\* after an answer the menu does not know; an unknown answer and a
\* cancelled exercise choice leave data.json as it was.
C21_MenuStateMachine ==
    /\ cli.prompt = "exit" =>
           (last.op = "input" /\ last.prompt = "menu"
            /\ strip(last.answer) = <<"4">>)
    /\ last.op = "show_today" => (cli = AtMenu /\ data_file = last.before)
    /\ (last.op = "input" /\ last.prompt = "steps") => cli = AtMenu
    /\ (last.op = "input" /\ last.prompt = "reps" /\ int(last.answer) = Some(0))
           => (cli = AtMenu /\ data_file = last.before)
    /\ Cancelled => (cli = AtMenu /\ data_file = last.before)
    /\ UnknownOption => (cli = AtMenu /\ data_file = last.before)

\* The program has ended after a set and a daily entry were logged.
C21_Witness ==
    /\ cli.prompt = "exit"
    /\ data_file.sets # <<>>
    /\ data_file.daily # <<>>

(***************************************************************************)
(* The recovery engine and the catalog: properties.                        *)
(***************************************************************************)
\* The sets of exercises the catalog has.
KnownOnly(sets) == SelectSeq(sets, LAMBDA s : s.exercise_id \in DOMAIN EXERCISES)

\* C15: the readiness computed over a store with sets of exercises the
\* catalog lacks is a map of all muscles, the one computed over the store
\* with those sets removed.
C15_UnknownExerciseIgnored ==
    Computed =>
        /\ DOMAIN last.ret = MuscleSet
        /\ last.ret = readiness_from(KnownOnly(data_file.sets), data_file.daily,
                                     last.user_id, last.as_of)

\* Readiness was computed for a user with a deadlift and a set of an
\* exercise the catalog lacks, and some muscle is fatigued.
C15_Witness ==
    /\ Computed
    /\ \E i, j \in DOMAIN data_file.sets :
           /\ data_file.sets[i].user_id = last.user_id
           /\ data_file.sets[j].user_id = last.user_id
           /\ data_file.sets[i].exercise_id = "deadlift"
           /\ data_file.sets[j].exercise_id \notin DOMAIN EXERCISES
    /\ \E m \in MuscleSet : last.ret[m] < Percent(100)

\* The least readiness of muscles in a map, a missing muscle counting as
\* 100 (100 for no muscle at all).
LeastOf(muscle_readiness, muscles) ==
    LET values == {IF muscles[i] \in DOMAIN muscle_readiness
                   THEN muscle_readiness[muscles[i]] ELSE Percent(100) :
                   i \in DOMAIN muscles} \cup {Percent(100)}
    IN  CHOOSE v \in values : \A w \in values : v <= w

\* C16: classify_exercise returns "full_power" when no primary muscle is
\* under 80 and no secondary one under 60, else "moderate" when no primary
\* one is under 60 and no secondary one under 50, else "fatigued", a missing
\* muscle counting as 100; so with the primary muscles at 85 (or missing)
\* and the secondary ones at 65 it is "full_power", and with one primary
\* muscle lowered to 70 it is "moderate".
C16_ClassifyExercise ==
    last.op = "classify_exercise" =>
        LET prim == LeastOf(last.muscle_readiness, EXERCISES[last.exercise_id].primary)
            sec == LeastOf(last.muscle_readiness, EXERCISES[last.exercise_id].secondary)
        IN  /\ last.ret = "full_power" <=> (prim >= Percent(80) /\ sec >= Percent(60))
            /\ last.ret = "moderate" <=>
                   /\ ~(prim >= Percent(80) /\ sec >= Percent(60))
                   /\ prim >= Percent(60) /\ sec >= Percent(50)
            /\ last.ret = "fatigued" <=> (prim < Percent(60) \/ sec < Percent(50))
            /\ (prim = Percent(85) /\ sec = Percent(65)) => last.ret = "full_power"
            /\ (prim = Percent(70) /\ sec = Percent(65)) => last.ret = "moderate"

\* The deadlift was classified with one of its three primary muscles at 70,
\* the others at 85, and the secondary ones at 65: "moderate".
C16_Witness ==
    /\ last.op = "classify_exercise"
    /\ last.exercise_id = "deadlift"
    /\ DOMAIN last.muscle_readiness =
           {"hamstrings", "glutes", "lower_back", "traps", "forearm_flexors",
            "brachioradialis"}
    /\ Cardinality({m \in {"hamstrings", "glutes", "lower_back"} :
                       last.muscle_readiness[m] = Percent(70)}) = 1
    /\ last.ret = "moderate"

\* C17: classify_muscle gives a readiness from 0 to 100 exactly one of six
\* labels, each band with its lower bound in it: from 95 fully fresh, from
\* 80 almost fresh, from 60 slightly fatigued, from 40 moderately fatigued,
\* 0 itself the label of its own, and between 0 and 40 very fatigued.
C17_ClassifyMuscle ==
    last.op = "classify_muscle" =>
        LET r == last.readiness
        IN  /\ last.ret = "FULLY FRESH" <=> r >= Percent(95)
            /\ last.ret = "ALMOST FRESH" <=> (Percent(80) <= r /\ r < Percent(95))
            /\ last.ret = "SLIGHTLY FATIGUED" <=> (Percent(60) <= r /\ r < Percent(80))
            /\ last.ret = "MODERATLY FATIGUED" <=> (Percent(40) <= r /\ r < Percent(60))
            /\ last.ret = "YOU DESTROYED THIS MUSCLE" <=> r = 0
            /\ last.ret = "VERY FATIGUED" <=> (0 < r /\ r < Percent(40))
            /\ last.ret \in {"FULLY FRESH", "ALMOST FRESH", "SLIGHTLY FATIGUED",
                             "MODERATLY FATIGUED", "YOU DESTROYED THIS MUSCLE",
                             "VERY FATIGUED"}

\* A readiness of exactly 40.0 was classified, as moderately fatigued.
C17_Witness ==
    /\ last.op = "classify_muscle"
    /\ last.readiness = Percent(40)
    /\ last.ret = "MODERATLY FATIGUED"

(***************************************************************************)
(* The History tab: properties.                                            *)
(***************************************************************************)
\* How often m is among muscles.
Occurrences(muscles, m) == Cardinality({i \in DOMAIN muscles : muscles[i] = m})

\* In tenths of a set, what the sets of user_id with a catalog exercise and
\* a date from first to last_day add up to for m: 1.0 for each time m is a
\* primary muscle and 0.5 for each time it is a secondary one.
WeightedSets(sets, user_id, first, last_day, m) ==
    SumSeq([i \in DOMAIN sets |->
              IF /\ sets[i].user_id = user_id
                 /\ sets[i].exercise_id \in DOMAIN EXERCISES
                 /\ first <= sets[i].timestamp.date
                 /\ sets[i].timestamp.date <= last_day
              THEN 10 * Occurrences(EXERCISES[sets[i].exercise_id].primary, m)
                   + 5 * Occurrences(EXERCISES[sets[i].exercise_id].secondary, m)
              ELSE 0])

\* C18: when the History tab shows the week of the picked date d, week_start
\* is the Monday with d - 6 <= week_start <= d (day 4, 1970-01-05, is a
\* Monday), every tracked muscle has a weekly total, and the total of a
\* muscle is the sum over the viewed user's sets with a catalog exercise
\* and a date from week_start to week_start + 6 of 1.0 per primary and 0.5
\* per secondary occurrence of the muscle, 0 without any.
C18_HistoryWeek ==
    (Rendered /\ last.view.history.info = "") =>
        LET d == last.selected_day
            week_start == last.view.history.week_start
            week_sum == last.view.history.week_sum
        IN  /\ (week_start - 4) % 7 = 0
            /\ d - 6 <= week_start /\ week_start <= d
            /\ DOMAIN week_sum = MuscleSet
            /\ \A m \in MuscleSet :
                   week_sum[m] = WeightedSets(data_file.sets, last.view.view_user_id,
                                              week_start, week_start + 6, m)

\* The week of a picked Sunday is shown: it began six days before, the
\* chest has the set of that Sunday and not the set of the Monday after.
C18_Witness ==
    /\ last.op = "main_view"
    /\ last.view.history.info = ""
    /\ last.selected_day = 3
    /\ last.view.history.week_start = -3
    /\ last.view.history.week_sum["chest"] = 10
    /\ last.view.history.week_sum["triceps"] = 5
    /\ last.view.history.week_sum["quads"] = 0
    /\ \E i \in DOMAIN data_file.sets : data_file.sets[i].timestamp.date = 4

(***************************************************************************)
(* Concurrent writers: properties.                                         *)
(***************************************************************************)
\* Both log_set calls have returned.
BothReturned == \A w \in Writers : writers[w].pc = "done"

\* The set a call appended in memory.
SetOf(w) == writers[w].data.sets[Len(writers[w].data.sets)]

\* The call that returned first, and the one that returned last.
Ranked(n) == CHOOSE w \in Writers : writers[w].rank = n

\* C19: when both log_set calls have returned and one of them loaded the
\* file between the other's load and save, the file holds only the set of
\* the call that saved last; when neither did, it holds both sets, in the
\* order of the calls.
C19_LastWriterWins ==
    BothReturned =>
        IF \E w \in Writers : writers[w].overlapped
        THEN data_file.sets = <<SetOf(Ranked(2))>>
        ELSE data_file.sets = <<SetOf(Ranked(1)), SetOf(Ranked(2))>>

\* Both calls have returned, they interleaved, their sets differ and the
\* file holds one set.
C19_Witness ==
    /\ BothReturned
    /\ \E w \in Writers : writers[w].overlapped
    /\ SetOf(1) # SetOf(2)
    /\ Len(data_file.sets) = 1

(***************************************************************************)
(* Projected readiness: properties.                                        *)
(***************************************************************************)
Projected == last.op = "compute_muscle_readiness_days_ahead"

\* No stored set of the user was timestamped after the instant of the call.
NoneAhead ==
    \A i \in DOMAIN data_file.sets :
        data_file.sets[i].user_id = last.user_id
            => fromisoformat(data_file.sets[i].timestamp) <= last.now

\* The projection returned is at least the current readiness, and the curve
\* up to it never falls, for every muscle.
NeverLowers ==
    /\ \A m \in MuscleSet : last.ret[m] >= last.current[m]
    /\ \A d1, d2 \in DOMAIN last.curve : \A m \in MuscleSet :
           d1 <= d2 => last.curve[d1][m] <= last.curve[d2][m]

\* C22 as stated: for any stored sets and daily entries of a user and any
\* days_ahead >= 0, the projected readiness of every muscle is at least its
\* current readiness, and projected readiness is non-decreasing in
\* days_ahead.
C22_AsStated == Projected => NeverLowers

\* C22: when no stored set of the user is timestamped after now, then for
\* any days_ahead >= 0 the projected readiness of every muscle is at least
\* its current readiness, and projected readiness is non-decreasing in
\* days_ahead.
C22_PassiveRecoveryNeverLowers ==
    (Projected /\ NoneAhead) => NeverLowers

\* A projection over sets of the past that shows a muscle recovering.
C22_Witness ==
    /\ Projected
    /\ NoneAhead
    /\ SelectUser(data_file.sets, last.user_id) # <<>>
    /\ last.days_ahead > 0
    /\ \E m \in MuscleSet :
           /\ last.current[m] < Percent(100)
           /\ last.ret[m] > last.current[m]

(***************************************************************************)
(* Readiness of one user and the records of the others: properties.        *)
(***************************************************************************)
\* The store after every other user changed what they had logged: another
\* exercise, no RIR, and a night without sleep.
OthersChanged(data, user_id) ==
    [sets |-> [i \in DOMAIN data.sets |->
                 IF data.sets[i].user_id = user_id THEN data.sets[i]
                 ELSE [data.sets[i] EXCEPT !.exercise_id = "bench_press",
                                           !.rir = None]],
     daily |-> [i \in DOMAIN data.daily |->
                  IF data.daily[i].user_id = user_id THEN data.daily[i]
                  ELSE [data.daily[i] EXCEPT !.sleep_hours = Some(0)]]]

\* C23: the map compute_current_muscle_readiness(u, as_of) returns is the one
\* it returns on every store that agrees on the sets and daily entries of u:
\* on the store with the records of the other users deleted, and on the
\* store with the records of the other users changed.
C23_OtherUsersDoNotCount ==
    Computed =>
        LET u == last.user_id
            own == OwnData(data_file, u)
            changed == OthersChanged(data_file, u)
        IN  /\ OwnData(changed, u) = own
            /\ last.ret = readiness_from(own.sets, own.daily, u, last.as_of)
            /\ last.ret = readiness_from(changed.sets, changed.daily, u,
                                         last.as_of)

\* Readiness was computed for a user with a set in the window and no daily
\* entry, while another user had a set and a daily entry of the same day.
C23_Witness ==
    /\ Computed
    /\ \E m \in MuscleSet : last.ret[m] < Percent(100)
    /\ OwnData(data_file, last.user_id).daily = <<>>
    /\ \E i \in DOMAIN data_file.sets, j \in DOMAIN data_file.daily :
           /\ data_file.sets[i].user_id # last.user_id
           /\ data_file.daily[j].user_id # last.user_id
           /\ data_file.daily[j].date = data_file.sets[i].timestamp.date

====
